---- MODULE Spec2Model ----
(***************************************************************************)
(* Identity and access subsystem of the OSINT platform backend.            *)
(*                                                                         *)
(* The repository holds two authentication implementations:               *)
(*   - backend/app/api/v1/auth.py with backend/app/core/security.py and    *)
(*     backend/app/core/database.py (status, MFA, refresh tokens,          *)
(*     sessions): specification Spec, and SpecSessions, where the methods  *)
(*     of the session manager are operations of their own;                 *)
(*   - backend/app/api/v1/endpoints/auth.py with backend/app/api/v1/deps.py*)
(*     (the router mounted by api/v1/router.py): specification SpecB;      *)
(*   - the in-process RateLimitDependency of deps.py: specification SpecRL.*)
(* Time is counted in seconds.                                             *)
(***************************************************************************)
EXTENDS Integers, Sequences, FiniteSets, TLC

VARIABLES
    users,          \* user store: user id -> user document
    sessions,       \* session store (Redis hashes "session:<id>"): id -> record
    held,           \* tokens handed out by the server that a client still holds
    now,            \* the clock (datetime.utcnow / time.time), in seconds
    request_times,  \* RateLimitDependency.request_times: user id -> list of times
    login_log,      \* times of the login requests of the last minute (history)
    allowed_log,    \* times of the requests the limiter let through in the
                    \* last minute (history)
    inflight,       \* requests a worker has begun and not answered yet:
                    \* worker -> the locals of the handler
    counters,       \* Redis string keys CacheManager.increment counts in:
                    \* key -> value and expiry time (NoTime: no time-to-live)
    last            \* the last request and its response (history)

vars == <<users, sessions, held, now, request_times, login_log, allowed_log,
          inflight, counters, last>>

-----------------------------------------------------------------------------
(* Bounds of the model *)

MaxHeld == 1
MaxCount == 1
MaxCounter == 3
MaxTyped == 3

(* Inputs *)

UserIds == {"u1"}
SessionIds == {"s1", "s2"}
Emails == {"a@x.com", "b@x.com"}
(* A password is the sequence of its characters: "Passw0rd!",              *)
(* "0therPass!", and two that the strength check turns down, "password1"   *)
(* and "Sh0rt!".                                                           *)
Passw0rd == <<"P", "a", "s", "s", "w", "0", "r", "d", "!">>
OtherPass == <<"0", "t", "h", "e", "r", "P", "a", "s", "s", "!">>
password1 == <<"p", "a", "s", "s", "w", "o", "r", "d", "1">>
Sh0rt == <<"S", "h", "0", "r", "t", "!">>

Passwords == {Passw0rd, OtherPass}
RegisterPasswords == {Passw0rd}
NewPasswords == {OtherPass}
WeakPasswords == {password1, Sh0rt}

(* Concurrent registrations: the workers that serve requests, the ids the  *)
(* store hands out, and two emails that differ in the case of a letter.    *)
Workers == {"w1", "w2"}
RegisterIds == {"u1", "u2"}
RegisterEmails == {"a@x.com", "A@x.com"}

None == "None"
NoTime == -1

-----------------------------------------------------------------------------
(* Configuration *)

JWT_SECRET == "your-super-secret-jwt-key"
SECRET_KEY == JWT_SECRET
ForgedKey == "attacker-secret"

ACCESS_TOKEN_EXPIRE_MINUTES == 60
REFRESH_TOKEN_EXPIRE_DAYS == 30
JWT_EXPIRATION_HOURS == 24
MfaTokenMinutes == 5
EmailTokenHours == 24
ResetTokenHours == 1
ResetExpiresHours == 1
strict_requests_per_minute == 10
session_ttl == 86400
TotpStep == 30
TotpWindow == 1

Minutes(n) == n * 60
Hours(n) == n * 3600
Days(n) == n * 86400

-----------------------------------------------------------------------------
(* Passwords: CryptContext(bcrypt).hash / verify *)

hash_password(p) == [alg |-> "bcrypt", of |-> p]

verify_password(p, h) == h.of = p

isupper(c) ==
    c \in {"A", "B", "C", "D", "E", "F", "G", "H", "I", "J", "K", "L", "M",
           "N", "O", "P", "Q", "R", "S", "T", "U", "V", "W", "X", "Y", "Z"}

islower(c) ==
    c \in {"a", "b", "c", "d", "e", "f", "g", "h", "i", "j", "k", "l", "m",
           "n", "o", "p", "q", "r", "s", "t", "u", "v", "w", "x", "y", "z"}

isdigit(c) == c \in {"0", "1", "2", "3", "4", "5", "6", "7", "8", "9"}

special_chars ==
    {"!", "@", "#", "$", "%", "^", "&", "*", "(", ")", "_", "+", "-", "=",
     "[", "]", "{", "}", "|", ";", ":", ",", ".", "<", ">", "?"}

PASSWORD_MIN_LENGTH == 8

(* any(password[i:i+3] in password[i+3:] for i in range(len(password)-2)) *)
RepeatsTriple(cs) ==
    \E i \in 1..(Len(cs) - 2) : \E j \in (i + 3)..(Len(cs) - 2) :
        SubSeq(cs, j, j + 2) = SubSeq(cs, i, i + 2)

(* "Final validation": valid, which so far is False only when the length  *)
(* check failed, becomes False unless every requirement is met.  The       *)
(* variant leaves it as the length check set it.                           *)
final_validation_m(valid, requirements) == valid

final_validation(valid, requirements) ==
    IF ~(\A k \in DOMAIN requirements : requirements[k]) THEN FALSE ELSE valid

(* SecurityManager.validate_password_strength *)
validate_password_strength(password) ==
    LET cs == password
        min_length == Len(cs) >= PASSWORD_MIN_LENGTH
        has_upper == \E i \in 1..Len(cs) : isupper(cs[i])
        has_lower == \E i \in 1..Len(cs) : islower(cs[i])
        has_digit == \E i \in 1..Len(cs) : isdigit(cs[i])
        has_special == \E i \in 1..Len(cs) : cs[i] \in special_chars
    IN [valid |-> final_validation(min_length,
                      [min_length |-> min_length, has_upper |-> has_upper,
                       has_lower |-> has_lower, has_digit |-> has_digit,
                       has_special |-> has_special]),
        score |-> (IF min_length THEN 20 ELSE 0) + (IF has_upper THEN 20 ELSE 0)
                  + (IF has_lower THEN 20 ELSE 0) + (IF has_digit THEN 20 ELSE 0)
                  + (IF has_special THEN 20 ELSE 0)
                  + (IF Len(cs) >= 12 THEN 10 ELSE 0)
                  + (IF ~RepeatsTriple(cs) THEN 10 ELSE 0),
        feedback |->
            (IF min_length THEN << >> ELSE <<"Password must be at least 8 characters long">>)
            \o (IF has_upper THEN << >>
                ELSE <<"Password must contain at least one uppercase letter">>)
            \o (IF has_lower THEN << >>
                ELSE <<"Password must contain at least one lowercase letter">>)
            \o (IF has_digit THEN << >>
                ELSE <<"Password must contain at least one digit">>)
            \o (IF has_special THEN << >>
                ELSE <<"Password must contain at least one special character">>),
        requirements |-> [min_length |-> min_length, has_upper |-> has_upper,
                          has_lower |-> has_lower, has_digit |-> has_digit,
                          has_special |-> has_special]]

-----------------------------------------------------------------------------
(* JSON Web Tokens.  A token is the signed payload: the payload's claims,  *)
(* the key it is signed with, and (history, never read by a verifier) the  *)
(* intent it was issued with.  A claim the payload lacks is None.          *)

Jwt(intent, typ, user_id, sub, email, mfa_required, exp, key) ==
    [form |-> "jwt", intent |-> intent, type |-> typ, user_id |-> user_id,
     sub |-> sub, email |-> email, mfa_required |-> mfa_required,
     role |-> None, permissions |-> << >>,
     exp |-> exp, key |-> key]

(* token_data of login, verify_mfa and refresh_token: the token carries    *)
(* "role": user.role and "permissions": user.permissions +                 *)
(* user.custom_permissions.                                                *)
token_data(tok, user) ==
    [tok EXCEPT !.role = user.role,
                !.permissions = user.permissions \o user.custom_permissions]

Garbage == [form |-> "garbage"]
NoToken == [form |-> "missing"]

(* jose.jwt.decode(token, key): JWTError on a malformed token, on a        *)
(* signature made with another key, and once exp < now.  The variant does  *)
(* not look at exp.                                                        *)
jwt_decodes_m(t, key, t_now) ==
    /\ t.form = "jwt"
    /\ t.key = key

jwt_decodes(t, key, t_now) ==
    /\ t.form = "jwt"
    /\ t.key = key
    /\ ~(t.exp < t_now)

(* SecurityManager.create_access_token: "type" is always "access". *)
create_access_token(intent, user_id, email, mfa_required, expires_delta, t_now) ==
    Jwt(intent, "access", user_id, None, email, mfa_required,
        t_now + expires_delta, SECRET_KEY)

create_refresh_token(user_id, email, expires_delta, t_now) ==
    Jwt("refresh", "refresh", user_id, None, email, FALSE,
        t_now + expires_delta, SECRET_KEY)

(* SecurityManager.verify_token: the payload, or HTTP 401. *)
verify_token_ok(t, t_now) == jwt_decodes(t, SECRET_KEY, t_now)

create_email_verification_token(email, t_now) ==
    Jwt("email_verification", "email_verification", None, None, email, FALSE,
        t_now + Hours(EmailTokenHours), SECRET_KEY)

(* The variant accepts a token of any type. *)
verify_email_verification_token_m(t, t_now) ==
    IF jwt_decodes(t, SECRET_KEY, t_now) THEN t.email ELSE None

verify_email_verification_token(t, t_now) ==
    IF jwt_decodes(t, SECRET_KEY, t_now) /\ t.type = "email_verification"
    THEN t.email ELSE None

create_password_reset_token(email, t_now) ==
    Jwt("password_reset", "password_reset", None, None, email, FALSE,
        t_now + Hours(ResetTokenHours), SECRET_KEY)

(* The variant accepts a token of any type. *)
verify_password_reset_token_m(t, t_now) ==
    IF jwt_decodes(t, SECRET_KEY, t_now) THEN t.email ELSE None

verify_password_reset_token(t, t_now) ==
    IF jwt_decodes(t, SECRET_KEY, t_now) /\ t.type = "password_reset"
    THEN t.email ELSE None

-----------------------------------------------------------------------------
(* TOTP (pyotp): the code of a secret at a time step, abstracted as the    *)
(* pair; verify accepts the steps now/30 - 1 .. now/30 + 1.                *)

TotpCode(secret, step) == [secret |-> secret, step |-> step]

verify_mfa_token(secret, code, t_now) ==
    \E d \in (0 - TotpWindow)..TotpWindow :
        code = TotpCode(secret, (t_now \div TotpStep) + d)

MfaSecret(uid) == uid

(* A backup code handed to the user when MFA is enrolled. *)
BackupCode(uid) == [backup_code_of |-> uid, n |-> 1]

(* The codes a client submits: the TOTP code of the current step, one of   *)
(* two steps ago, and a backup code.                                       *)
Codes(t_now) ==
    {TotpCode(MfaSecret(u), (t_now \div TotpStep) + d) :
        u \in UserIds, d \in {0 - 2, 0}}
    \cup {BackupCode(u) : u \in UserIds}

-----------------------------------------------------------------------------
(* core/security.py: roles and permissions *)

ROLE_PERMISSIONS ==
    [admin |-> <<"read:data", "write:data", "delete:data",
                 "read:collectors", "write:collectors", "execute:collectors",
                 "read:reports", "write:reports", "share:reports",
                 "read:users", "write:users", "admin:users",
                 "read:organization", "write:organization", "admin:organization",
                 "read:system", "write:system", "admin:system">>,
     manager |-> <<"read:data", "write:data",
                   "read:collectors", "write:collectors", "execute:collectors",
                   "read:reports", "write:reports", "share:reports",
                   "read:users", "write:users",
                   "read:organization">>,
     analyst |-> <<"read:data",
                   "read:collectors", "execute:collectors",
                   "read:reports", "write:reports">>,
     viewer |-> <<"read:data", "read:collectors", "read:reports">>,
     api_user |-> << >>]

get_permissions_for_role(role) ==
    IF role \in DOMAIN ROLE_PERMISSIONS THEN ROLE_PERMISSIONS[role] ELSE << >>

Roles == DOMAIN ROLE_PERMISSIONS

(* The custom grants an administrator hands out. *)
CustomGrants == {"write:reports"}

-----------------------------------------------------------------------------
(* User documents.  app/models/user.py (Spec) and app/db/models/user.py    *)
(* (SpecB) declare different fields; a field a document lacks reads as the *)
(* model's default.                                                        *)

NewUser(email, password_hash, token, t_now) ==
    [email |-> email, password_hash |-> password_hash,
     role |-> "viewer", permissions |-> get_permissions_for_role("viewer"),
     custom_permissions |-> << >>,
     status |-> "pending_verification", is_email_verified |-> FALSE,
     email_verification_token |-> token,
     password_reset_token |-> NoToken, password_reset_expires |-> NoTime,
     mfa_enabled |-> FALSE, mfa_last_used |-> NoTime, mfa_backup_codes |-> {},
     login_count |-> 0, failed_login_attempts |-> 0, last_login |-> NoTime,
     updated_at |-> t_now]

NewUserB(email, password_hash) ==
    [email |-> email, password_hash |-> password_hash,
     is_active |-> TRUE, is_verified |-> FALSE, last_login |-> NoTime]

find_by_email(us, email) == {u \in DOMAIN us : us[u].email = email}

IsActive(doc) == IF "is_active" \in DOMAIN doc THEN doc.is_active ELSE TRUE

(* The account has not proved its email address yet. *)
PendingVerification(doc) ==
    IF "status" \in DOMAIN doc
    THEN doc.status = "pending_verification"
    ELSE ~doc.is_verified

FreshUserId(us) == CHOOSE u \in UserIds \ DOMAIN us : TRUE

-----------------------------------------------------------------------------
(* SessionManager over the Redis cache *)

EmptyHash == [user_id |-> None, expires |-> NoTime]

SessionRecord(user_id, t_now) == [user_id |-> user_id, expires |-> t_now + session_ttl]

(* CacheManager.set_hash: hset and expire in one pipeline; a store error is *)
(* logged and False is returned.                                           *)
set_hash(store, key, mapping, write_ok) ==
    IF write_ok
    THEN [s \in DOMAIN store \cup {key} |-> IF s = key THEN mapping ELSE store[s]]
    ELSE store

(* The variant is create_session with datetime imported: it writes the     *)
(* record under a new id and returns the id.                               *)
create_session_m(store, user_id, t_now) ==
    LET sid == IF SessionIds \ DOMAIN store # {}
               THEN CHOOSE s \in SessionIds \ DOMAIN store : TRUE
               ELSE CHOOSE s \in SessionIds : TRUE
    IN [raised |-> None,
        store |-> set_hash(store, sid, SessionRecord(user_id, t_now), TRUE),
        session_id |-> sid]

(* create_session: building the record evaluates datetime.utcnow(), and    *)
(* database.py never imports datetime: the call raises NameError before    *)
(* set_hash is reached, nothing is written and no id is returned.          *)
create_session(store, user_id, t_now) ==
    [raised |-> "NameError", store |-> store, session_id |-> None]

(* get_session: hgetall of a key that does not exist is the empty hash. *)
get_session(store, sid) ==
    IF sid \in DOMAIN store THEN store[sid] ELSE EmptyHash

user_sessions(store, user_id) ==
    {s \in DOMAIN store : store[s].user_id = user_id}

(* delete_user_sessions: the scan deletes the keys in `deleted`; when the  *)
(* store fails on the way the error is logged and 0 is returned.           *)
delete_user_sessions(store, deleted) ==
    [s \in DOMAIN store \ deleted |-> store[s]]

delete_user_sessions_count(deleted, failed) ==
    IF failed THEN 0 ELSE Cardinality(deleted)

(* Redis drops a key when its time-to-live is over. *)
expire_sessions(store, t_now) ==
    [s \in {x \in DOMAIN store : store[x].expires > t_now} |-> store[s]]

-----------------------------------------------------------------------------
(* core/database.py, CacheManager.increment: the Redis commands of its     *)
(* pipeline.  A counter is [value, expires]; expires = NoTime is a key     *)
(* without a time-to-live, which Redis keeps until it is deleted.          *)

(* INCRBY key amount: a missing key counts from 0 and is created without a *)
(* time-to-live; an existing key keeps the one it has.                     *)
incr(store, key, amount) ==
    [k \in DOMAIN store \cup {key} |->
        IF k # key THEN store[k]
        ELSE IF key \in DOMAIN store
             THEN [store[key] EXCEPT !.value = @ + amount]
             ELSE [value |-> amount, expires |-> NoTime]]

(* EXPIRE key ttl: an existing key gets the time-to-live, counted from now. *)
expire(store, key, ttl, t_now) ==
    [k \in DOMAIN store |->
        IF k = key THEN [store[k] EXCEPT !.expires = t_now + ttl] ELSE store[k]]

(* pipe.execute() when the server has taken `sent` of the two commands     *)
(* before the connection failed (2: no failure).  The variant is a         *)
(* pipeline without MULTI/EXEC, whose commands take effect one by one.     *)
pipeline_execute_m(store, key, amount, ttl, t_now, sent) ==
    IF sent = 0 THEN store
    ELSE IF sent = 1 THEN incr(store, key, amount)
    ELSE expire(incr(store, key, amount), key, ttl, t_now)

(* redis_client.pipeline() is a transaction: the commands are queued       *)
(* between MULTI and EXEC and run as one unit, or not at all.              *)
pipeline_execute(store, key, amount, ttl, t_now, sent) ==
    IF sent < 2 THEN store
    ELSE expire(incr(store, key, amount), key, ttl, t_now)

(* Redis drops a counter when its time-to-live is over. *)
expire_counters(store, t_now) ==
    [k \in {x \in DOMAIN store : store[x].expires = NoTime \/ store[x].expires > t_now}
        |-> store[k]]

-----------------------------------------------------------------------------
(* Requests and responses (history) *)

Resp(op, outcome, code, detail) ==
    [op |-> op, outcome |-> outcome, code |-> code, detail |-> detail,
     user_id |-> None, presented |-> None,
     access_token |-> NoToken, refresh_token |-> NoToken, mfa_token |-> NoToken,
     session_id |-> None, deleted |-> 0, pw_checked |-> FALSE, in_window |-> 0,
     email |-> None, mailed |-> NoToken, backup_code |-> FALSE, value |-> 0]

(* How a presented token stands at the time of the request: "invalid"    *)
(* when it is missing, no JWT, signed with a foreign key or past its exp,  *)
(* and else the intent it was issued with.                                 *)
PresentedAs(t, t_now) ==
    IF t.form # "jwt" THEN "invalid"
    ELSE IF t.key # SECRET_KEY THEN "invalid"
    ELSE IF t.exp < t_now THEN "invalid"
    ELSE t.intent

TokenResp(t, op, outcome, code, detail) ==
    [Resp(op, outcome, code, detail) EXCEPT !.presented = PresentedAs(t, now)]

(* What a client may present: a token it holds, the same token re-signed   *)
(* with a key of its own, a string that is no token, or nothing.           *)
Presented ==
    held \cup {[t EXCEPT !.key = ForgedKey] : t \in held} \cup {Garbage, NoToken}

(* The client keeps any of the tokens it has and of those just returned. *)
Keep(ts) ==
    held' \in {h \in SUBSET (held \cup ts) : Cardinality(h) <= MaxHeld}

-----------------------------------------------------------------------------
(* api/v1/auth.py: the handlers.  Every handler but refresh and logout     *)
(* depends on rate_limiter.check_auth_rate_limit, which runs before the    *)
(* handler's body and answers 429 when the caller is over its limit.       *)

RateLimitDenied(op) ==
    /\ last' = Resp(op, "rate_limited", 429, "Rate limit exceeded")
    /\ UNCHANGED <<users, sessions, held, now, request_times, login_log, allowed_log,
                   inflight, counters>>

Unchanged_rl ==
    UNCHANGED <<now, request_times, login_log, allowed_log, inflight, counters>>

(* The validators of the request bodies: pydantic answers 422 before the    *)
(* handler's body runs.                                                    *)
UserCreate_validate_password(v) == validate_password_strength(v).valid

PasswordResetConfirm_validate_password(v) == validate_password_strength(v).valid

InvalidBody(op) == Resp(op, "invalid_body", 422, "value_error")

register(email, password) ==
    \/ RateLimitDenied("register")
    \/ /\ IF ~UserCreate_validate_password(password)
          THEN /\ last' = [InvalidBody("register") EXCEPT !.email = email]
               /\ UNCHANGED <<users, held>>
          ELSE IF find_by_email(users, email) # {}
          THEN \* the HTTPException(400) is raised inside the try block, whose only
               \* handler is "except Exception": the caller gets the 500
               /\ last' = [Resp("register", "duplicate", 500, "Registration failed")
                             EXCEPT !.email = email]
               /\ UNCHANGED <<users, held>>
          ELSE /\ UserIds \ DOMAIN users # {}
               /\ LET uid == FreshUserId(users)
                      tok == create_email_verification_token(email, now)
                  IN /\ users' = [u \in DOMAIN users \cup {uid} |->
                                    IF u = uid
                                    THEN NewUser(email, hash_password(password), tok, now)
                                    ELSE users[u]]
                     /\ Keep({tok})
                     /\ last' = [Resp("register", "ok", 201,
                                      "Registration successful. Please verify your email.")
                                    EXCEPT !.user_id = uid, !.mailed = tok,
                                           !.email = email]
       /\ UNCHANGED <<sessions>>
       /\ Unchanged_rl

(* The test that makes verify_email answer without writing.  The variant  *)
(* never answers early.                                                    *)
already_verified_m(doc) == FALSE

already_verified(doc) == doc.is_email_verified

verify_email(t) ==
    \/ RateLimitDenied("verify_email")
    \/ /\ LET email == verify_email_verification_token(t, now)
              found == find_by_email(users, email)
          IN IF email = None
             THEN /\ last' = TokenResp(t, "verify_email", "bad_token", 400,
                                     "Invalid or expired verification token")
                  /\ UNCHANGED users
             ELSE IF found = {}
             THEN /\ last' = TokenResp(t, "verify_email", "no_user", 404, "User not found")
                  /\ UNCHANGED users
             ELSE LET uid == CHOOSE u \in found : TRUE IN
                  IF already_verified(users[uid])
                  THEN /\ last' = [TokenResp(t, "verify_email", "already", 200, "Email already verified")
                                     EXCEPT !.user_id = uid]
                       /\ UNCHANGED users
                  ELSE /\ users' = [users EXCEPT ![uid].is_email_verified = TRUE,
                                                 ![uid].status = "active",
                                                 ![uid].email_verification_token = NoToken,
                                                 ![uid].updated_at = now]
                       /\ last' = [TokenResp(t, "verify_email", "ok", 200, "Email verified successfully")
                                     EXCEPT !.user_id = uid]
       /\ UNCHANGED <<sessions, held>>
       /\ Unchanged_rl

(* The branch login takes for (email, password).  The variant has no MFA   *)
(* branch.                                                                 *)
login_outcome_m(us, email, password) ==
    LET found == find_by_email(us, email) IN
    IF found = {} THEN "no_user"
    ELSE LET doc == us[CHOOSE u \in found : TRUE] IN
         IF ~verify_password(password, doc.password_hash) THEN "bad_password"
         ELSE IF doc.status = "suspended" THEN "suspended"
         ELSE IF doc.status = "pending_verification" THEN "pending"
         ELSE "ok"

login_outcome(us, email, password) ==
    LET found == find_by_email(us, email) IN
    IF found = {} THEN "no_user"
    ELSE LET doc == us[CHOOSE u \in found : TRUE] IN
         IF ~verify_password(password, doc.password_hash) THEN "bad_password"
         ELSE IF doc.status = "suspended" THEN "suspended"
         ELSE IF doc.status = "pending_verification" THEN "pending"
         ELSE IF doc.mfa_enabled THEN "mfa"
         ELSE "ok"

login_status(outcome) ==
    CASE outcome = "no_user" -> 401
      [] outcome = "bad_password" -> 401
      [] outcome = "suspended" -> 403
      [] outcome = "pending" -> 403
      [] OTHER -> 200

(* The variant tells an unknown email from a wrong password. *)
login_detail_m(outcome) ==
    CASE outcome = "no_user" -> "User not found"
      [] outcome = "bad_password" -> "Invalid email or password"
      [] outcome = "suspended" -> "Account suspended"
      [] outcome = "pending" -> "Email verification required"
      [] outcome = "mfa" -> "MFA verification required"
      [] OTHER -> "OK"

login_detail(outcome) ==
    CASE outcome = "no_user" -> "Invalid email or password"
      [] outcome = "bad_password" -> "Invalid email or password"
      [] outcome = "suspended" -> "Account suspended"
      [] outcome = "pending" -> "Email verification required"
      [] outcome = "mfa" -> "MFA verification required"
      [] OTHER -> "OK"

LoginResp(outcome) ==
    [Resp("login", outcome, login_status(outcome), login_detail(outcome))
        EXCEPT !.pw_checked = (outcome # "no_user")]

login(email, password, remember_me) ==
    \/ RateLimitDenied("login")
    \/ /\ LET outcome == login_outcome(users, email, password)
              found == find_by_email(users, email)
              uid == CHOOSE u \in found : TRUE
          IN CASE outcome = "no_user" ->
                    /\ last' = LoginResp(outcome)
                    /\ UNCHANGED <<users, sessions, held>>
               [] outcome = "bad_password" ->
                    /\ users[uid].failed_login_attempts < MaxCount
                    /\ users' = [users EXCEPT ![uid].failed_login_attempts = @ + 1]
                    /\ last' = [LoginResp(outcome) EXCEPT !.user_id = uid]
                    /\ UNCHANGED <<sessions, held>>
               [] outcome \in {"suspended", "pending"} ->
                    /\ last' = [LoginResp(outcome) EXCEPT !.user_id = uid]
                    /\ UNCHANGED <<users, sessions, held>>
               [] outcome = "mfa" ->
                    LET tok == create_access_token("mfa_pending", uid, email, TRUE,
                                                   Minutes(MfaTokenMinutes), now)
                    IN /\ Keep({tok})
                       /\ last' = [LoginResp(outcome)
                                     EXCEPT !.user_id = uid, !.mfa_token = tok]
                       /\ UNCHANGED <<users, sessions>>
               [] OTHER ->
                    LET access == token_data(create_access_token("access", uid, email, FALSE,
                            Minutes(ACCESS_TOKEN_EXPIRE_MINUTES * (IF remember_me THEN 7 ELSE 1)), now),
                            users[uid])
                        refresh == token_data(create_refresh_token(uid, email,
                            Days(REFRESH_TOKEN_EXPIRE_DAYS * (IF remember_me THEN 2 ELSE 1)), now),
                            users[uid])
                        created == create_session(sessions, uid, now)
                    IN /\ users[uid].login_count < MaxCount
                       \* user.save() comes before the session is created
                       /\ users' = [users EXCEPT ![uid].last_login = now,
                                                  ![uid].login_count = @ + 1,
                                                  ![uid].failed_login_attempts = 0]
                       /\ sessions' = created.store
                       /\ IF created.raised # None
                          THEN \* "except Exception": HTTP 500, no token is returned
                               /\ last' = [Resp("login", "session_error", 500, "Login failed")
                                             EXCEPT !.user_id = uid, !.pw_checked = TRUE]
                               /\ UNCHANGED held
                          ELSE /\ Keep({access, refresh})
                               /\ last' = [LoginResp(outcome)
                                             EXCEPT !.user_id = uid, !.access_token = access,
                                                    !.refresh_token = refresh,
                                                    !.session_id = created.session_id]
       /\ Unchanged_rl

(* The branch verify_mfa takes for (mfa_token, code). *)
verify_mfa_outcome(us, t, code, t_now) ==
    IF ~verify_token_ok(t, t_now) THEN "bad_token"
    ELSE IF ~t.mfa_required THEN "not_mfa_token"
    ELSE IF t.user_id \notin DOMAIN us THEN "no_user"
    ELSE IF ~verify_mfa_token(MfaSecret(t.user_id), code, t_now) THEN "bad_code"
    ELSE "ok"

verify_mfa_status(outcome) ==
    CASE outcome = "bad_token" -> 401
      [] outcome = "not_mfa_token" -> 400
      [] outcome = "no_user" -> 404
      [] outcome = "bad_code" -> 401
      [] OTHER -> 200

verify_mfa_detail(outcome) ==
    CASE outcome = "bad_token" -> "Could not validate credentials"
      [] outcome = "not_mfa_token" -> "Invalid MFA token"
      [] outcome = "no_user" -> "User not found"
      [] outcome = "bad_code" -> "Invalid MFA code"
      [] OTHER -> "OK"

verify_mfa(t, code) ==
    \/ RateLimitDenied("verify_mfa")
    \/ /\ LET outcome == verify_mfa_outcome(users, t, code, now)
              resp == [TokenResp(t, "verify_mfa", outcome, verify_mfa_status(outcome),
                            verify_mfa_detail(outcome))
                         EXCEPT !.backup_code =
                            /\ outcome \in {"bad_code", "ok"}
                            /\ code \in users[t.user_id].mfa_backup_codes]
          IN IF outcome # "ok"
             THEN /\ last' = resp
                  /\ UNCHANGED <<users, held>>
             ELSE LET uid == t.user_id
                      access == token_data(create_access_token("access", uid, users[uid].email,
                                    FALSE, Minutes(ACCESS_TOKEN_EXPIRE_MINUTES), now), users[uid])
                      refresh == token_data(create_refresh_token(uid, users[uid].email,
                                    Days(REFRESH_TOKEN_EXPIRE_DAYS), now), users[uid])
                  IN /\ users[uid].login_count < MaxCount
                     /\ users' = [users EXCEPT ![uid].mfa_last_used = now,
                                                ![uid].last_login = now,
                                                ![uid].login_count = @ + 1]
                     /\ Keep({access, refresh})
                     /\ last' = [resp EXCEPT !.user_id = uid, !.access_token = access,
                                             !.refresh_token = refresh]
       \* the handler never calls sessions.create_session
       /\ UNCHANGED <<sessions>>
       /\ Unchanged_rl

(* The branch refresh_token takes for the presented token.  The variant    *)
(* does not look at the token's type.                                      *)
refresh_outcome_m(us, t, t_now) ==
    IF ~verify_token_ok(t, t_now) THEN "bad_token"
    ELSE IF t.user_id \notin DOMAIN us THEN "no_user"
    ELSE IF us[t.user_id].status # "active" THEN "inactive"
    ELSE "ok"

refresh_outcome(us, t, t_now) ==
    IF ~verify_token_ok(t, t_now) THEN "bad_token"
    ELSE IF t.type # "refresh" THEN "not_refresh_token"
    ELSE IF t.user_id \notin DOMAIN us THEN "no_user"
    ELSE IF us[t.user_id].status # "active" THEN "inactive"
    ELSE "ok"

refresh_detail(outcome) ==
    CASE outcome = "bad_token" -> "Could not validate credentials"
      [] outcome = "not_refresh_token" -> "Invalid refresh token"
      [] outcome \in {"no_user", "inactive"} -> "User not found or inactive"
      [] OTHER -> "OK"

refresh_token(t) ==
    /\ LET outcome == refresh_outcome(users, t, now) IN
       IF outcome # "ok"
       THEN /\ last' = TokenResp(t, "refresh", outcome, 401, refresh_detail(outcome))
            /\ UNCHANGED held
       ELSE LET uid == t.user_id
                access == token_data(create_access_token("access", uid, users[uid].email,
                              FALSE, Minutes(ACCESS_TOKEN_EXPIRE_MINUTES), now), users[uid])
            IN /\ Keep({access})
               /\ last' = [TokenResp(t, "refresh", outcome, 200, "OK")
                             EXCEPT !.user_id = uid, !.access_token = access]
    /\ UNCHANGED <<users, sessions>>
    /\ Unchanged_rl

(* get_current_user of app.api.dependencies: the account of a valid access *)
(* token, or None (HTTP 401).                                              *)
dependencies_get_current_user(us, t, t_now) ==
    IF ~verify_token_ok(t, t_now) THEN None
    ELSE IF t.type # "access" \/ t.mfa_required THEN None
    ELSE IF t.user_id \notin DOMAIN us THEN None
    ELSE IF us[t.user_id].status # "active" THEN None
    ELSE t.user_id

(* logout: the scan of delete_user_sessions may fail on the way; the error *)
(* is swallowed there and the handler answers success.                     *)
logout(t) ==
    /\ LET uid == dependencies_get_current_user(users, t, now) IN
       IF uid = None
       THEN /\ last' = TokenResp(t, "logout", "unauthorized", 401, "Could not validate credentials")
            /\ UNCHANGED sessions
       ELSE \E failed \in BOOLEAN, deleted \in SUBSET user_sessions(sessions, uid) :
              /\ ~failed => deleted = user_sessions(sessions, uid)
              /\ sessions' = delete_user_sessions(sessions, deleted)
              /\ last' = [TokenResp(t, "logout", "ok", 200, "Logged out successfully")
                            EXCEPT !.user_id = uid,
                                   !.deleted = delete_user_sessions_count(deleted, failed)]
    /\ UNCHANGED <<users, held>>
    /\ Unchanged_rl

(* The message request_password_reset returns.  The variant tells the     *)
(* caller that no account has the email.                                   *)
request_password_reset_detail_m(found) ==
    IF found = {} THEN "No account with this email"
    ELSE "If the email exists, a password reset link has been sent"

request_password_reset_detail(found) ==
    "If the email exists, a password reset link has been sent"

request_password_reset(email) ==
    \/ RateLimitDenied("request_password_reset")
    \/ /\ LET found == find_by_email(users, email)
              resp == [Resp("request_password_reset", "ok", 200,
                            request_password_reset_detail(found))
                         EXCEPT !.email = email]
          IN IF found = {}
             THEN /\ last' = resp
                  /\ UNCHANGED <<users, held>>
             ELSE LET uid == CHOOSE u \in found : TRUE
                      tok == create_password_reset_token(email, now)
                  IN /\ users' = [users EXCEPT
                                      ![uid].password_reset_token = tok,
                                      ![uid].password_reset_expires = now + Hours(ResetExpiresHours)]
                     /\ Keep({tok})
                     \* send_password_reset_email is scheduled with the token
                     /\ last' = [resp EXCEPT !.mailed = tok]
       /\ UNCHANGED sessions
       /\ Unchanged_rl

(* The branch confirm_password_reset takes for the presented token. *)
confirm_outcome(us, t, t_now) ==
    LET email == verify_password_reset_token(t, t_now)
        found == find_by_email(us, email)
    IN IF email = None THEN "bad_token"
       ELSE IF found = {} THEN "no_user"
       ELSE LET doc == us[CHOOSE u \in found : TRUE] IN
            IF doc.password_reset_expires # NoTime /\ doc.password_reset_expires < t_now
            THEN "expired"
            ELSE "ok"

confirm_status(outcome) ==
    CASE outcome = "bad_token" -> 400
      [] outcome = "no_user" -> 404
      [] outcome = "expired" -> 400
      [] OTHER -> 200

confirm_detail(outcome) ==
    CASE outcome = "bad_token" -> "Invalid or expired reset token"
      [] outcome = "no_user" -> "User not found"
      [] outcome = "expired" -> "Reset token has expired"
      [] OTHER -> "Password reset successfully"

confirm_password_reset(t, new_password) ==
    \/ RateLimitDenied("confirm_password_reset")
    \/ /\ LET outcome == confirm_outcome(users, t, now)
              resp == TokenResp(t, "confirm_password_reset", outcome, confirm_status(outcome),
                           confirm_detail(outcome))
          IN IF ~PasswordResetConfirm_validate_password(new_password)
             THEN /\ last' = InvalidBody("confirm_password_reset")
                  /\ UNCHANGED <<users, sessions>>
             ELSE IF outcome # "ok"
             THEN /\ last' = resp
                  /\ UNCHANGED <<users, sessions>>
             ELSE LET uid == CHOOSE u \in find_by_email(users, t.email) : TRUE IN
                  /\ users' = [users EXCEPT
                                   ![uid].password_hash = hash_password(new_password),
                                   ![uid].password_reset_token = NoToken,
                                   ![uid].password_reset_expires = NoTime,
                                   ![uid].updated_at = now]
                  /\ \E failed \in BOOLEAN, deleted \in SUBSET user_sessions(sessions, uid) :
                        /\ ~failed => deleted = user_sessions(sessions, uid)
                        /\ sessions' = delete_user_sessions(sessions, deleted)
                        /\ last' = [resp EXCEPT !.user_id = uid,
                                       !.deleted = delete_user_sessions_count(deleted, failed)]
       /\ UNCHANGED held
       /\ Unchanged_rl

-----------------------------------------------------------------------------
(* api/v1/deps.py: bearer authentication *)

(* The variant does not look at is_active. *)
get_current_user_m(us, t, t_now) ==
    IF ~jwt_decodes(t, JWT_SECRET, t_now) THEN None
    ELSE IF t.sub = None THEN None
    ELSE IF t.sub \notin DOMAIN us THEN None
    ELSE t.sub

(* get_current_user: the id of the authenticated user, or None (HTTP 401). *)
get_current_user(us, t, t_now) ==
    IF ~jwt_decodes(t, JWT_SECRET, t_now) THEN None
    ELSE IF t.sub = None THEN None
    ELSE IF t.sub \notin DOMAIN us THEN None
    ELSE IF ~IsActive(us[t.sub]) THEN None
    ELSE t.sub

(* GET /auth/me, standing for any endpoint behind get_current_user. *)
get_current_user_info(t) ==
    /\ LET uid == get_current_user(users, t, now) IN
       IF uid = None
       THEN last' = TokenResp(t, "me", "unauthorized", 401, "Could not validate credentials")
       ELSE last' = [TokenResp(t, "me", "ok", 200, "OK") EXCEPT !.user_id = uid]
    /\ UNCHANGED <<users, sessions, held>>
    /\ Unchanged_rl

-----------------------------------------------------------------------------
(* What happens outside these handlers *)

(* MFA enrolment sets mfa.enabled, the secret and the backup codes of an   *)
(* account.                                                                *)
mfa_enroll(uid) ==
    /\ uid \in DOMAIN users
    /\ ~users[uid].mfa_enabled
    /\ users' = [users EXCEPT ![uid].mfa_enabled = TRUE,
                              ![uid].mfa_backup_codes = {BackupCode(uid)}]
    /\ last' = [Resp("mfa_enroll", "ok", 200, "OK") EXCEPT !.user_id = uid]
    /\ UNCHANGED <<sessions, held>>
    /\ Unchanged_rl

(* An administrator suspends an account. *)
admin_suspend(uid) ==
    /\ uid \in DOMAIN users
    /\ users[uid].status # "suspended"
    /\ users' = [users EXCEPT ![uid].status = "suspended"]
    /\ last' = [Resp("admin_suspend", "ok", 200, "OK") EXCEPT !.user_id = uid]
    /\ UNCHANGED <<sessions, held>>
    /\ Unchanged_rl

(* An administrator deactivates an account of the mounted router, or      *)
(* removes its document from the users collection.                         *)
admin_deactivate(uid) ==
    /\ uid \in DOMAIN users
    /\ users[uid].is_active
    /\ users' = [users EXCEPT ![uid].is_active = FALSE]
    /\ last' = [Resp("admin_deactivate", "ok", 200, "OK") EXCEPT !.user_id = uid]
    /\ UNCHANGED <<sessions, held>>
    /\ Unchanged_rl

admin_delete_user(uid) ==
    /\ uid \in DOMAIN users
    /\ users' = [u \in DOMAIN users \ {uid} |-> users[u]]
    /\ last' = [Resp("admin_delete_user", "ok", 200, "OK") EXCEPT !.user_id = uid]
    /\ UNCHANGED <<sessions, held>>
    /\ Unchanged_rl

(* An ObjectId is never given out twice: the model gives the id of a       *)
(* removed document to a new one only when no token names it any more.     *)
NoTokenOfRemovedUser ==
    \A t \in held : (t.form = "jwt" /\ t.sub # None) => t.sub \in DOMAIN users

(* An administrator assigns a role: the document's role field is written. *)
admin_set_role(uid, role) ==
    /\ uid \in DOMAIN users
    /\ users[uid].role # role
    /\ users' = [users EXCEPT ![uid].role = role]
    /\ last' = [Resp("admin_set_role", "ok", 200, "OK") EXCEPT !.user_id = uid]
    /\ UNCHANGED <<sessions, held>>
    /\ Unchanged_rl

(* An administrator grants a permission to one user. *)
admin_grant(uid, permission) ==
    /\ uid \in DOMAIN users
    /\ Len(users[uid].custom_permissions) < MaxCount
    /\ users' = [users EXCEPT ![uid].custom_permissions = Append(@, permission)]
    /\ last' = [Resp("admin_grant", "ok", 200, "OK") EXCEPT !.user_id = uid]
    /\ UNCHANGED <<sessions, held>>
    /\ Unchanged_rl

(* The rate-limit window of RateLimitDependency, in seconds. *)
Window == 60

InWindow(log, t_now) == SelectSeq(log, LAMBDA x : t_now - x < Window)

(* Time passes; Redis drops the sessions whose time-to-live is over. *)
Tick(t) ==
    /\ t > now
    /\ now' = t
    /\ sessions' = expire_sessions(sessions, t)
    /\ login_log' = InWindow(login_log, t)
    /\ allowed_log' = InWindow(allowed_log, t)
    /\ counters' = expire_counters(counters, t)
    /\ UNCHANGED <<users, held, request_times, inflight, last>>

-----------------------------------------------------------------------------
(* core/database.py: the methods of the module-level session manager,      *)
(* called directly.                                                        *)

sessions_create_session(uid) ==
    /\ LET created == create_session(sessions, uid, now) IN
         /\ sessions' = created.store
         /\ last' = [Resp("create_session", created.raised, 0, "")
                       EXCEPT !.user_id = uid, !.session_id = created.session_id]
    /\ UNCHANGED <<users, held>>
    /\ Unchanged_rl

update_session(sid, uid) ==
    /\ \E write_ok \in BOOLEAN :
         /\ sessions' = set_hash(sessions, sid, SessionRecord(uid, now), write_ok)
         /\ last' = [Resp("update_session", IF write_ok THEN "ok" ELSE "failed", 0, "")
                       EXCEPT !.user_id = uid, !.session_id = sid]
    /\ UNCHANGED <<users, held>>
    /\ Unchanged_rl

sessions_get_session(sid) ==
    /\ LET hash == get_session(sessions, sid) IN
         last' = [Resp("get_session", IF hash = EmptyHash THEN "not_found" ELSE "found", 0, "")
                    EXCEPT !.user_id = hash.user_id, !.session_id = sid]
    /\ UNCHANGED <<users, sessions, held>>
    /\ Unchanged_rl

(* delete_user_sessions(user_id): the scan has deleted the keys in         *)
(* `deleted` when it ends or when the store fails; the outcome in `last`   *)
(* is history, the caller gets the count and nothing else.                 *)
sessions_delete_user_sessions(uid) ==
    /\ \E failed \in BOOLEAN, deleted \in SUBSET user_sessions(sessions, uid) :
         /\ ~failed => deleted = user_sessions(sessions, uid)
         /\ sessions' = delete_user_sessions(sessions, deleted)
         /\ last' = [Resp("delete_user_sessions", IF failed THEN "store_error" ELSE "ok", 0, "")
                       EXCEPT !.user_id = uid,
                              !.deleted = delete_user_sessions_count(deleted, failed)]
    /\ UNCHANGED <<users, held>>
    /\ Unchanged_rl

(* delete_session: CacheManager.delete, False when the store fails. *)
delete_session(sid) ==
    /\ \E delete_ok \in BOOLEAN :
         /\ sessions' = IF delete_ok THEN delete_user_sessions(sessions, {sid}) ELSE sessions
         /\ last' = [Resp("delete_session",
                          IF delete_ok /\ sid \in DOMAIN sessions THEN "ok" ELSE "failed", 0, "")
                       EXCEPT !.session_id = sid]
    /\ UNCHANGED <<users, held>>
    /\ Unchanged_rl

-----------------------------------------------------------------------------
(* api/v1/endpoints/auth.py: the handlers of the mounted router *)

(* The variant writes the email into the "sub" claim. *)
endpoints_create_access_token_m(sub, email, expires_delta, t_now) ==
    Jwt("access", None, None, email, email, FALSE, t_now + expires_delta, JWT_SECRET)

endpoints_create_access_token(sub, email, expires_delta, t_now) ==
    Jwt("access", None, None, sub, email, FALSE, t_now + expires_delta, JWT_SECRET)

(* authenticate_user: the user, or None. *)
authenticate_user(us, email, password) ==
    LET found == find_by_email(us, email) IN
    IF found = {} THEN None
    ELSE LET uid == CHOOSE u \in found : TRUE IN
         IF ~us[uid].is_active THEN None
         ELSE IF ~verify_password(password, us[uid].password_hash) THEN None
         ELSE uid

(* authenticate_user reaches verify_password for an active account. *)
password_verified(us, email) ==
    \E u \in find_by_email(us, email) : us[u].is_active

endpoints_login_status(uid) == IF uid = None THEN 401 ELSE 200

endpoints_login_detail(uid) == IF uid = None THEN "Incorrect email or password" ELSE "OK"

endpoints_login(email, password) ==
    /\ Len(login_log) <= strict_requests_per_minute
    /\ login_log' = Append(login_log, now)
    /\ LET uid == authenticate_user(users, email, password)
           resp == [Resp("login", IF uid = None THEN "unauthorized" ELSE "ok",
                         endpoints_login_status(uid), endpoints_login_detail(uid))
                      EXCEPT !.pw_checked = password_verified(users, email),
                             !.in_window = Len(login_log'), !.email = email]
       IN IF uid = None
          THEN /\ last' = resp
               /\ UNCHANGED <<users, held>>
          ELSE LET access == endpoints_create_access_token(uid, email,
                                 Hours(JWT_EXPIRATION_HOURS), now)
               IN /\ users' = [users EXCEPT ![uid].last_login = now]
                  /\ Keep({access})
                  /\ last' = [resp EXCEPT !.user_id = uid, !.access_token = access]
    /\ UNCHANGED <<sessions, now, request_times, allowed_log, inflight, counters>>

(* RegisterRequest.password: Field(..., min_length=8) *)
RegisterRequest_password(v) == Len(v) >= 8

endpoints_register(email, password) ==
    /\ IF ~RegisterRequest_password(password)
       THEN /\ last' = [InvalidBody("register") EXCEPT !.email = email]
            /\ UNCHANGED <<users, held>>
       ELSE IF find_by_email(users, email) # {}
       THEN /\ last' = [Resp("register", "duplicate", 400, "Email already registered")
                          EXCEPT !.email = email]
            /\ UNCHANGED <<users, held>>
       ELSE /\ UserIds \ DOMAIN users # {}
            /\ LET uid == FreshUserId(users)
                   access == endpoints_create_access_token(uid, email,
                                 Hours(JWT_EXPIRATION_HOURS), now)
               IN /\ users' = [u \in DOMAIN users \cup {uid} |->
                                 IF u = uid
                                 THEN NewUserB(email, hash_password(password))
                                 ELSE users[u]]
                  /\ Keep({access})
                  /\ last' = [Resp("register", "ok", 200, "OK")
                                EXCEPT !.user_id = uid, !.access_token = access,
                                       !.email = email]
    /\ UNCHANGED sessions
    /\ Unchanged_rl

(* register of the mounted router, step by step: the handler awaits        *)
(* find_one and then insert_one, and other requests run between the two.   *)
(* The users collection has no unique index.                               *)
endpoints_register_find(w, email, password) ==
    /\ w \notin DOMAIN inflight
    /\ IF ~RegisterRequest_password(password)
       THEN /\ last' = [InvalidBody("register") EXCEPT !.email = email]
            /\ UNCHANGED inflight
       ELSE IF find_by_email(users, email) # {}
       THEN /\ last' = [Resp("register", "duplicate", 400, "Email already registered")
                          EXCEPT !.email = email]
            /\ UNCHANGED inflight
       ELSE /\ inflight' = [x \in DOMAIN inflight \cup {w} |->
                               IF x = w THEN [email |-> email, password |-> password]
                               ELSE inflight[x]]
            /\ UNCHANGED last
    /\ UNCHANGED <<users, sessions, held, now, request_times, login_log, allowed_log,
                   counters>>

endpoints_register_insert(w) ==
    /\ w \in DOMAIN inflight
    /\ RegisterIds \ DOMAIN users # {}
    /\ LET email == inflight[w].email
           uid == CHOOSE u \in RegisterIds \ DOMAIN users : TRUE
           access == endpoints_create_access_token(uid, email,
                         Hours(JWT_EXPIRATION_HOURS), now)
       IN /\ users' = [u \in DOMAIN users \cup {uid} |->
                         IF u = uid
                         THEN NewUserB(email, hash_password(inflight[w].password))
                         ELSE users[u]]
          /\ Keep({access})
          /\ last' = [Resp("register", "ok", 200, "OK")
                        EXCEPT !.user_id = uid, !.access_token = access,
                               !.email = email]
    /\ inflight' = [x \in DOMAIN inflight \ {w} |-> inflight[x]]
    /\ UNCHANGED <<sessions, now, request_times, login_log, allowed_log, counters>>

endpoints_refresh_token(t) ==
    /\ LET uid == get_current_user(users, t, now) IN
       IF uid = None
       THEN /\ last' = TokenResp(t, "refresh", "unauthorized", 401, "Could not validate credentials")
            /\ UNCHANGED held
       ELSE LET access == endpoints_create_access_token(uid, users[uid].email,
                              Hours(JWT_EXPIRATION_HOURS), now)
            IN /\ Keep({access})
               /\ last' = [TokenResp(t, "refresh", "ok", 200, "OK")
                             EXCEPT !.user_id = uid, !.access_token = access]
    /\ UNCHANGED <<users, sessions>>
    /\ Unchanged_rl

(* logout: "client-side token invalidation", nothing is deleted. *)
endpoints_logout(t) ==
    /\ LET uid == get_current_user(users, t, now) IN
       IF uid = None
       THEN last' = TokenResp(t, "logout", "unauthorized", 401, "Could not validate credentials")
       ELSE last' = [TokenResp(t, "logout", "ok", 200, "Successfully logged out")
                       EXCEPT !.user_id = uid]
    /\ UNCHANGED <<users, sessions, held>>
    /\ Unchanged_rl

(* POST /verify-token: decodes the token and does not look the user up. *)
endpoints_verify_token(t) ==
    /\ IF jwt_decodes(t, JWT_SECRET, now) /\ t.sub # None
       THEN last' = [TokenResp(t, "verify_token", "ok", 200, "OK") EXCEPT !.user_id = t.sub]
       ELSE last' = TokenResp(t, "verify_token", "unauthorized", 401, "Invalid token")
    /\ UNCHANGED <<users, sessions, held>>
    /\ Unchanged_rl

-----------------------------------------------------------------------------
(* api/v1/deps.py: RateLimitDependency.__call__ of strict_rate_limit, for  *)
(* the user the bearer dependency resolved.                                *)

Cleaned(times, user_id, t_now) ==
    IF user_id \in DOMAIN times THEN InWindow(times[user_id], t_now) ELSE << >>

(* The variant lets one more request through. *)
OverLimit_m(times, user_id, t_now, requests_per_minute) ==
    Len(Cleaned(times, user_id, t_now)) > requests_per_minute

OverLimit(times, user_id, t_now, requests_per_minute) ==
    Len(Cleaned(times, user_id, t_now)) >= requests_per_minute

(* "Add current request": reached only when the check did not raise.  The *)
(* variant records the denied request as well.                            *)
record_request_m(cleaned, over, current_time) == Append(cleaned, current_time)

record_request(cleaned, over, current_time) ==
    IF over THEN cleaned ELSE Append(cleaned, current_time)

RateLimitDependency_call(t) ==
    /\ LET uid == get_current_user(users, t, now) IN
       IF uid = None
       THEN /\ last' = TokenResp(t, "rate_limited_request", "unauthorized", 401,
                            "Could not validate credentials")
            /\ UNCHANGED <<request_times, allowed_log>>
       ELSE LET cleaned == Cleaned(request_times, uid, now)
                over == OverLimit(request_times, uid, now, strict_requests_per_minute)
                kept == record_request(cleaned, over, now)
            IN /\ request_times' = [u \in DOMAIN request_times \cup {uid} |->
                                      IF u = uid THEN kept ELSE request_times[u]]
               /\ allowed_log' = IF over THEN allowed_log ELSE Append(allowed_log, now)
               /\ last' = [TokenResp(t, "rate_limited_request",
                                IF over THEN "rate_limited" ELSE "ok",
                                IF over THEN 429 ELSE 200,
                                IF over THEN "Rate limit exceeded" ELSE "OK")
                             EXCEPT !.user_id = uid,
                                    !.in_window = Len(InWindow(allowed_log, now))]
    /\ UNCHANGED <<users, sessions, held, now, login_log, inflight, counters>>

(* RateLimitDependency.__call__, step by step.  FastAPI first resolves the *)
(* bearer dependency, which awaits the user lookup; the body then runs     *)
(* from its first line to the append without an await, so no other request *)
(* of the process runs in between.  `seen` is the dictionary as it was     *)
(* when the request began; the body does not read it.                      *)
request_times_read_m(stored, seen) == seen

request_times_read(stored, seen) == stored

RateLimitDependency_resolve(w, t) ==
    /\ w \notin DOMAIN inflight
    /\ LET uid == get_current_user(users, t, now) IN
       IF uid = None
       THEN /\ last' = TokenResp(t, "rate_limited_request", "unauthorized", 401,
                            "Could not validate credentials")
            /\ UNCHANGED inflight
       ELSE /\ inflight' = [x \in DOMAIN inflight \cup {w} |->
                               IF x = w
                               THEN [op |-> "rate_limited_request", uid |-> uid,
                                     presented |-> PresentedAs(t, now),
                                     seen |-> request_times]
                               ELSE inflight[x]]
            /\ UNCHANGED last
    /\ UNCHANGED <<users, sessions, held, now, request_times, login_log, allowed_log,
                   counters>>

RateLimitDependency_body(w) ==
    /\ w \in DOMAIN inflight
    /\ inflight[w].op = "rate_limited_request"
    /\ LET uid == inflight[w].uid
           times == request_times_read(request_times, inflight[w].seen)
           cleaned == Cleaned(times, uid, now)
           over == OverLimit(times, uid, now, strict_requests_per_minute)
           kept == record_request(cleaned, over, now)
       IN /\ request_times' = [u \in DOMAIN request_times \cup {uid} |->
                                 IF u = uid THEN kept ELSE request_times[u]]
          /\ allowed_log' = IF over THEN allowed_log ELSE Append(allowed_log, now)
          /\ last' = [Resp("rate_limited_request",
                           IF over THEN "rate_limited" ELSE "ok",
                           IF over THEN 429 ELSE 200,
                           IF over THEN "Rate limit exceeded" ELSE "OK")
                        EXCEPT !.user_id = uid,
                               !.presented = inflight[w].presented,
                               !.in_window = Len(InWindow(allowed_log, now))]
    /\ inflight' = [x \in DOMAIN inflight \ {w} |-> inflight[x]]
    /\ UNCHANGED <<users, sessions, held, now, login_log, counters>>

(* verify_mfa as it runs under asyncio: the handler reads the user         *)
(* (await User.find_one), checks the code and builds the tokens, and       *)
(* writes with await user.save(); other requests run between the two.      *)
verify_mfa_find(w, t, code) ==
    /\ w \notin DOMAIN inflight
    /\ \/ RateLimitDenied("verify_mfa")
       \/ /\ LET outcome == verify_mfa_outcome(users, t, code, now)
                 resp == [TokenResp(t, "verify_mfa", outcome, verify_mfa_status(outcome),
                               verify_mfa_detail(outcome))
                            EXCEPT !.backup_code =
                               /\ outcome \in {"bad_code", "ok"}
                               /\ code \in users[t.user_id].mfa_backup_codes]
             IN IF outcome # "ok"
                THEN /\ last' = resp
                     /\ UNCHANGED inflight
                ELSE LET uid == t.user_id
                         access == token_data(create_access_token("access", uid,
                                       users[uid].email, FALSE,
                                       Minutes(ACCESS_TOKEN_EXPIRE_MINUTES), now), users[uid])
                         refresh == token_data(create_refresh_token(uid, users[uid].email,
                                       Days(REFRESH_TOKEN_EXPIRE_DAYS), now), users[uid])
                     IN /\ users[uid].login_count < MaxCount
                        /\ inflight' = [x \in DOMAIN inflight \cup {w} |->
                              IF x = w
                              THEN [op |-> "verify_mfa", outcome |-> outcome, uid |-> uid,
                                    mfa_token |-> t, resp |-> resp,
                                    access |-> access, refresh |-> refresh,
                                    doc |-> [users[uid] EXCEPT !.mfa_last_used = now,
                                                               !.last_login = now,
                                                               !.login_count = @ + 1]]
                              ELSE inflight[x]]
                        /\ UNCHANGED last
          /\ UNCHANGED <<users, sessions, held, now, request_times, login_log, allowed_log,
                         counters>>

(* The response of verify_mfa_save carries, for the record, the MFA token *)
(* the request presented.                                                 *)
verify_mfa_save(w) ==
    /\ w \in DOMAIN inflight
    /\ inflight[w].op = "verify_mfa"
    /\ LET uid == inflight[w].uid
       IN /\ users' = [users EXCEPT ![uid] = inflight[w].doc]
          /\ Keep({inflight[w].access, inflight[w].refresh})
          /\ last' = [inflight[w].resp
                        EXCEPT !.user_id = uid, !.access_token = inflight[w].access,
                               !.refresh_token = inflight[w].refresh]
                     @@ [request_mfa_token |-> inflight[w].mfa_token]
    /\ inflight' = [x \in DOMAIN inflight \ {w} |-> inflight[x]]
    \* the handler never calls sessions.create_session
    /\ UNCHANGED <<sessions, now, request_times, login_log, allowed_log, counters>>

(* login of api/v1/auth.py, step by step.  The handler awaits              *)
(* User.find_one, works on the document it got, and then awaits            *)
(* user.save(), which writes that document back; other requests run        *)
(* between the two awaits.  The branches that save nothing answer in the   *)
(* first step.                                                             *)
login_find(w, email, password, remember_me) ==
    /\ w \notin DOMAIN inflight
    /\ \/ RateLimitDenied("login")
       \/ /\ LET outcome == login_outcome(users, email, password)
                 found == find_by_email(users, email)
                 uid == CHOOSE u \in found : TRUE
                 begun(doc) == [x \in DOMAIN inflight \cup {w} |->
                                  IF x = w
                                  THEN [op |-> "login", outcome |-> outcome, uid |-> uid,
                                        email |-> email, remember_me |-> remember_me,
                                        doc |-> doc]
                                  ELSE inflight[x]]
             IN CASE outcome = "no_user" ->
                       /\ last' = LoginResp(outcome)
                       /\ UNCHANGED <<held, inflight>>
                  [] outcome = "bad_password" ->
                       /\ users[uid].failed_login_attempts < MaxCount
                       /\ inflight' = begun([users[uid] EXCEPT !.failed_login_attempts = @ + 1])
                       /\ UNCHANGED <<held, last>>
                  [] outcome \in {"suspended", "pending"} ->
                       /\ last' = [LoginResp(outcome) EXCEPT !.user_id = uid]
                       /\ UNCHANGED <<held, inflight>>
                  [] outcome = "mfa" ->
                       LET tok == create_access_token("mfa_pending", uid, email, TRUE,
                                                      Minutes(MfaTokenMinutes), now)
                       IN /\ Keep({tok})
                          /\ last' = [LoginResp(outcome)
                                        EXCEPT !.user_id = uid, !.mfa_token = tok]
                          /\ UNCHANGED inflight
                  [] OTHER ->
                       /\ users[uid].login_count < MaxCount
                       /\ inflight' = begun([users[uid] EXCEPT !.last_login = now,
                                                               !.login_count = @ + 1,
                                                               !.failed_login_attempts = 0])
                       /\ UNCHANGED <<held, last>>
          /\ UNCHANGED <<users, sessions, now, request_times, login_log, allowed_log,
                         counters>>

login_save(w) ==
    /\ w \in DOMAIN inflight
    /\ inflight[w].op = "login"
    /\ LET uid == inflight[w].uid
           created == create_session(sessions, uid, now)
       IN /\ users' = [users EXCEPT ![uid] = inflight[w].doc]
          /\ IF inflight[w].outcome = "bad_password"
             THEN /\ last' = [LoginResp("bad_password") EXCEPT !.user_id = uid]
                  /\ UNCHANGED <<sessions, held>>
             ELSE LET email == inflight[w].email
                      remember_me == inflight[w].remember_me
                      access == token_data(create_access_token("access", uid, email, FALSE,
                          Minutes(ACCESS_TOKEN_EXPIRE_MINUTES * (IF remember_me THEN 7 ELSE 1)), now),
                          inflight[w].doc)
                      refresh == token_data(create_refresh_token(uid, email,
                          Days(REFRESH_TOKEN_EXPIRE_DAYS * (IF remember_me THEN 2 ELSE 1)), now),
                          inflight[w].doc)
                  IN /\ sessions' = created.store
                     /\ IF created.raised # None
                        THEN \* "except Exception": HTTP 500, no token is returned
                             /\ last' = [Resp("login", "session_error", 500, "Login failed")
                                           EXCEPT !.user_id = uid, !.pw_checked = TRUE]
                             /\ UNCHANGED held
                        ELSE /\ Keep({access, refresh})
                             /\ last' = [LoginResp("ok")
                                           EXCEPT !.user_id = uid, !.access_token = access,
                                                  !.refresh_token = refresh,
                                                  !.session_id = created.session_id]
    /\ inflight' = [x \in DOMAIN inflight \ {w} |-> inflight[x]]
    /\ UNCHANGED <<now, request_times, login_log, allowed_log, counters>>

-----------------------------------------------------------------------------
(* core/database.py: CacheManager.increment(key, amount, ttl).  The value  *)
(* after the increment is returned; when the store fails the error is      *)
(* logged and 0 is returned.                                               *)
CounterKeys == {"rate:auth:a", "rate:auth:b"}
Amounts == {1, 2}
Ttls == {60, 3600}

CacheManager_increment(key, amount, ttl) ==
    /\ \E sent \in 0..2 :
         /\ (key \in DOMAIN counters) => counters[key].value + amount <= MaxCounter
         /\ counters' = pipeline_execute(counters, key, amount, ttl, now, sent)
         /\ last' = [Resp("increment", IF sent = 2 THEN "ok" ELSE "error", 0, "")
                       EXCEPT !.value = IF sent = 2 THEN counters'[key].value ELSE 0]
    /\ UNCHANGED <<users, sessions, held, now, request_times, login_log, allowed_log,
                   inflight>>

-----------------------------------------------------------------------------
(* The instants at which the clock is read.  Instants: the start, the      *)
(* last second of the lifetime of an MFA token issued at the start, and    *)
(* the second after the lifetime of an access or a reset token issued at   *)
(* the start.  InstantsSessions: the start and the end of the time-to-live of  *)
(* a session written at the start.  InstantsB: the start, the end of the   *)
(* rate-limit window, and the second after the lifetime of a token issued  *)
(* at the start.  InstantsRL: the last second of the window that starts at *)
(* 0, its end, and the last second of the window that starts at 60.        *)
Instants == {0, 300, 3601}
InstantsSessions == {0, 86400}
InstantsB == {0, 60, 86401}
InstantsRL == {0, 59, 60, 119}

-----------------------------------------------------------------------------
Init ==
    /\ users = << >>
    /\ sessions = << >>
    /\ held = {}
    /\ now = 0
    /\ request_times = << >>
    /\ login_log = << >>
    /\ allowed_log = << >>
    /\ inflight = << >>
    /\ counters = << >>
    /\ last = Resp("init", "ok", 0, "")

Next ==
    \/ \E e \in Emails, p \in RegisterPasswords : register(e, p)
    \/ \E t \in Presented : verify_email(t)
    \/ \E e \in Emails, p \in Passwords, r \in BOOLEAN : login(e, p, r)
    \/ \E t \in Presented, c \in Codes(now) : verify_mfa(t, c)
    \/ \E t \in Presented : refresh_token(t)
    \/ \E t \in Presented : logout(t)
    \/ \E t \in Presented : get_current_user_info(t)
    \/ \E u \in UserIds : mfa_enroll(u)
    \/ \E u \in UserIds : admin_suspend(u)
    \/ \E t \in Instants : Tick(t)

Spec == Init /\ [][Next]_vars

(* Registration, email verification and the password reset flow. *)
NextReset ==
    \/ \E e \in Emails, p \in RegisterPasswords \cup WeakPasswords : register(e, p)
    \/ \E t \in Presented : verify_email(t)
    \/ \E e \in Emails : request_password_reset(e)
    \/ \E t \in Presented, p \in NewPasswords \cup WeakPasswords :
          confirm_password_reset(t, p)
    \/ \E e \in Emails, p \in Passwords : login(e, p, FALSE)
    \/ \E t \in Instants : Tick(t)

SpecReset == Init /\ [][NextReset]_vars

(* The password reset flow of accounts that have sessions. *)
NextResetSessions ==
    \/ \E e \in Emails, p \in RegisterPasswords : register(e, p)
    \/ \E e \in Emails : request_password_reset(e)
    \/ \E t \in Presented, p \in NewPasswords : confirm_password_reset(t, p)
    \/ \E s \in SessionIds, u \in UserIds : update_session(s, u)
    \/ \E t \in Instants : Tick(t)

SpecResetSessions == Init /\ [][NextResetSessions]_vars

(* The authentication flow together with direct calls of the session       *)
(* manager.                                                                *)
NextSessions ==
    \/ \E e \in Emails, p \in RegisterPasswords : register(e, p)
    \/ \E t \in Presented : verify_email(t)
    \/ \E u \in UserIds : mfa_enroll(u)
    \/ \E e \in Emails, p \in RegisterPasswords : login(e, p, FALSE)
    \/ \E t \in Presented, c \in Codes(now) : verify_mfa(t, c)
    \/ \E t \in Presented : logout(t)
    \/ \E u \in UserIds : sessions_create_session(u)
    \/ \E s \in SessionIds, u \in UserIds : update_session(s, u)
    \/ \E s \in SessionIds : sessions_get_session(s)
    \/ \E s \in SessionIds : delete_session(s)
    \/ \E t \in InstantsSessions : Tick(t)

SpecSessions == Init /\ [][NextSessions]_vars

(* The mounted router. *)
NextB ==
    \/ \E e \in Emails, p \in RegisterPasswords : endpoints_register(e, p)
    \/ \E e \in Emails, p \in Passwords : endpoints_login(e, p)
    \/ \E t \in Presented : endpoints_refresh_token(t)
    \/ \E t \in Presented : endpoints_logout(t)
    \/ \E t \in Presented : get_current_user_info(t)
    \/ \E t \in Presented : endpoints_verify_token(t)
    \/ \E t \in InstantsB : Tick(t)

SpecB == Init /\ [][NextB]_vars

(* Token issuance for accounts whose role and grants an administrator      *)
(* sets.                                                                   *)
NextRoles ==
    \/ \E p \in RegisterPasswords : register("a@x.com", p)
    \/ \E t \in Presented : verify_email(t)
    \/ \E u \in UserIds : mfa_enroll(u)
    \/ \E u \in UserIds, r \in Roles : admin_set_role(u, r)
    \/ \E u \in UserIds, g \in CustomGrants : admin_grant(u, g)
    \/ \E p \in RegisterPasswords : login("a@x.com", p, FALSE)
    \/ \E t \in Presented, c \in Codes(now) : verify_mfa(t, c)
    \/ \E t \in Presented : refresh_token(t)
    \/ \E t \in Instants : Tick(t)

SpecRoles == Init /\ [][NextRoles]_vars

(* Concurrent registrations at the mounted router. *)
NextRegister ==
    \/ \E w \in Workers, e \in RegisterEmails, p \in RegisterPasswords \cup WeakPasswords :
          endpoints_register_find(w, e, p)
    \/ \E w \in Workers : endpoints_register_insert(w)
    \/ \E t \in Presented : get_current_user_info(t)
    \/ \E t \in InstantsB : Tick(t)

SpecRegister == Init /\ [][NextRegister]_vars

(* The session manager on its own, with the sessions of two users. *)
NextSessionStore ==
    \/ \E s \in SessionIds, u \in RegisterIds : update_session(s, u)
    \/ \E u \in RegisterIds : sessions_delete_user_sessions(u)
    \/ \E u \in RegisterIds : sessions_create_session(u)
    \/ \E s \in SessionIds : sessions_get_session(s)
    \/ \E s \in SessionIds : delete_session(s)
    \/ \E t \in InstantsSessions : Tick(t)

SpecSessionStore == Init /\ [][NextSessionStore]_vars

(* The two handlers that delete the sessions of a user, logout and         *)
(* confirm_password_reset, with what leads to them.                        *)
NextDeletion ==
    \/ \E p \in RegisterPasswords : register("a@x.com", p)
    \/ \E t \in Presented : verify_email(t)
    \/ \E u \in UserIds : mfa_enroll(u)
    \/ \E p \in RegisterPasswords : login("a@x.com", p, FALSE)
    \/ \E t \in Presented, c \in Codes(now) : verify_mfa(t, c)
    \/ \E t \in Presented : logout(t)
    \/ request_password_reset("a@x.com")
    \/ \E t \in Presented, p \in NewPasswords : confirm_password_reset(t, p)
    \/ \E s \in SessionIds, u \in UserIds : update_session(s, u)
    \/ \E t \in InstantsSessions : Tick(t)

SpecDeletion == Init /\ [][NextDeletion]_vars

(* The mounted router with accounts that are deactivated or removed. *)
NextActive ==
    \/ \E e \in Emails, p \in RegisterPasswords :
          NoTokenOfRemovedUser /\ endpoints_register(e, p)
    \/ \E e \in Emails, p \in Passwords : endpoints_login(e, p)
    \/ \E t \in Presented : get_current_user_info(t)
    \/ \E t \in Presented : endpoints_refresh_token(t)
    \/ \E u \in UserIds : admin_deactivate(u)
    \/ \E u \in UserIds : admin_delete_user(u)
    \/ \E t \in InstantsB : Tick(t)

SpecActive == Init /\ [][NextActive]_vars

(* The strict limiter with two users. *)
InstantsRLUsers == {0, 59, 60}

NextRLUsers ==
    \/ \E e \in Emails, p \in RegisterPasswords : endpoints_register_find("w1", e, p)
    \/ endpoints_register_insert("w1")
    \/ \E t \in Presented : RateLimitDependency_call(t)
    \/ \E t \in InstantsRLUsers : Tick(t)

SpecRLUsers == Init /\ [][NextRLUsers]_vars

(* Two verify_mfa requests in flight. *)
MfaInstants == {0, 60}

NextMfaRace ==
    \/ \E p \in RegisterPasswords : register("a@x.com", p)
    \/ \E t \in Presented : verify_email(t)
    \/ \E u \in UserIds : mfa_enroll(u)
    \/ \E p \in RegisterPasswords : login("a@x.com", p, FALSE)
    \/ \E w \in Workers, t \in Presented, c \in Codes(now) : verify_mfa_find(w, t, c)
    \/ \E w \in Workers : verify_mfa_save(w)
    \/ \E t \in MfaInstants : Tick(t)

SpecMfaRace == Init /\ [][NextMfaRace]_vars

(* Logins in flight while the password is reset. *)
NextLoginReset ==
    \/ \E p \in RegisterPasswords : register("a@x.com", p)
    \/ \E t \in Presented : verify_email(t)
    \/ request_password_reset("a@x.com")
    \/ \E t \in Presented, p \in NewPasswords : confirm_password_reset(t, p)
    \/ \E w \in Workers, p \in RegisterPasswords : login_find(w, "a@x.com", p, FALSE)
    \/ \E w \in Workers : login_save(w)

SpecLoginReset == Init /\ [][NextLoginReset]_vars

(* Concurrent logins at api/v1/auth.py. *)
NextLogin ==
    \/ \E e \in Emails, p \in RegisterPasswords : register(e, p)
    \/ \E t \in Presented : verify_email(t)
    \/ \E w \in Workers, e \in Emails, p \in Passwords : login_find(w, e, p, FALSE)
    \/ \E w \in Workers : login_save(w)
    \/ \E t \in Instants : Tick(t)

SpecLogin == Init /\ [][NextLogin]_vars

(* SecurityManager.validate_password_strength, called on its own.  The    *)
(* passwords it is called with: a stem (nothing; seven lowercase letters,  *)
(* without and with a repeated triple; eleven lowercase letters) followed  *)
(* by up to MaxTyped characters out of an uppercase letter, a lowercase    *)
(* letter, a digit, a character of special_chars and one that is in none   *)
(* of the classes.                                                         *)
StrengthStems ==
    {<< >>,
     <<"a", "b", "c", "d", "e", "f", "g">>,
     <<"a", "b", "c", "a", "b", "c", "a">>,
     <<"a", "b", "c", "d", "e", "f", "g", "h", "i", "j", "k">>}

StrengthAlphabet == {"A", "b", "1", "!", "~"}

StrengthInputs ==
    {stem \o typed : stem \in StrengthStems,
                     typed \in UNION {[1..n -> StrengthAlphabet] : n \in 0..MaxTyped}}

InitStrength ==
    /\ users = << >>
    /\ sessions = << >>
    /\ held = {}
    /\ now = 0
    /\ request_times = << >>
    /\ login_log = << >>
    /\ allowed_log = << >>
    /\ inflight \in {[w \in {"w1"} |-> [op |-> "validate_password_strength", password |-> p]] :
                        p \in StrengthInputs}
    /\ counters = << >>
    /\ last = Resp("init", "ok", 0, "")

security_validate_password_strength(w) ==
    /\ w \in DOMAIN inflight
    /\ inflight[w].op = "validate_password_strength"
    /\ last' = Resp("validate_password_strength", "ok", 0, "")
                  @@ [password |-> inflight[w].password,
                      result |-> validate_password_strength(inflight[w].password)]
    /\ inflight' = [x \in DOMAIN inflight \ {w} |-> inflight[x]]
    /\ UNCHANGED <<users, sessions, held, now, request_times, login_log, allowed_log,
                   counters>>

NextStrength ==
    \E w \in Workers : security_validate_password_strength(w)

SpecStrength == InitStrength /\ [][NextStrength]_vars

(* Concurrent requests at a strictly rate-limited endpoint. *)
NextRLRace ==
    \/ \E p \in RegisterPasswords : endpoints_register("a@x.com", p)
    \/ \E w \in Workers, t \in Presented : RateLimitDependency_resolve(w, t)
    \/ \E w \in Workers : RateLimitDependency_body(w)
    \/ \E t \in InstantsRL : Tick(t)

SpecRLRace == Init /\ [][NextRLRace]_vars

(* The counters of the cache manager. *)
NextCounters ==
    \/ \E k \in CounterKeys, a \in Amounts, ttl \in Ttls : CacheManager_increment(k, a, ttl)
    \/ \E t \in InstantsRL : Tick(t)

SpecCounters == Init /\ [][NextCounters]_vars

(* A strictly rate-limited endpoint of the mounted router. *)
NextRL ==
    \/ \E e \in Emails, p \in RegisterPasswords : endpoints_register(e, p)
    \/ \E t \in Presented : RateLimitDependency_call(t)
    \/ \E t \in InstantsRL : Tick(t)

SpecRL == Init /\ [][NextRL]_vars

-----------------------------------------------------------------------------
(* Properties *)

NoTokens(resp) ==
    /\ resp.access_token = NoToken
    /\ resp.refresh_token = NoToken
    /\ resp.mfa_token = NoToken

C2_SinglePurposeTokens ==
    /\ (last.op = "verify_email" /\ last.presented = "password_reset") =>
          (last.outcome = "bad_token" /\ last.code = 400)
    /\ (last.op = "confirm_password_reset" /\ last.presented = "email_verification") =>
          (last.outcome = "bad_token" /\ last.code = 400)
    /\ \A t \in held :
          /\ t.intent = "password_reset" =>
                verify_email_verification_token(t, now) = None
          /\ t.intent = "email_verification" =>
                verify_password_reset_token(t, now) = None

(* verify_email has just turned down an unexpired password reset token *)
C2_Witness ==
    /\ last.op = "verify_email"
    /\ last.presented = "password_reset"
    /\ last.outcome = "bad_token"

(* C3: verification fails closed on every path: a token presented after    *)
(* its exp, a token signed with another key, a malformed token and a       *)
(* missing token yield no claims (HTTP 400/401, None), whatever the        *)
(* request.                                                                *)
C3_VerificationFailsClosed ==
    /\ last.presented = "invalid" =>
          (last.code \in {400, 401} /\ last.user_id = None /\ NoTokens(last))
    /\ \A t \in Presented :
          PresentedAs(t, now) = "invalid" =>
             /\ ~verify_token_ok(t, now)
             /\ verify_email_verification_token(t, now) = None
             /\ verify_password_reset_token(t, now) = None
             /\ get_current_user(users, t, now) = None
             /\ dependencies_get_current_user(users, t, now) = None

(* verify_mfa has just turned down the client's mfa_pending token, whose   *)
(* signature is good and whose exp is over                                 *)
C3_Witness ==
    /\ last.op = "verify_mfa"
    /\ last.presented = "invalid"
    /\ held # {}
    /\ \A t \in held : t.intent = "mfa_pending" /\ t.key = SECRET_KEY /\ t.exp < now

(* The account a token speaks for. *)
TokenUser(t) == IF t.sub # None THEN t.sub ELSE t.user_id

(* C4: an account that has not verified its email yet holds no session and *)
(* has been issued no access or refresh token.                             *)
C4_PendingHoldsNothing ==
    \A u \in DOMAIN users :
        PendingVerification(users[u]) =>
           /\ user_sessions(sessions, u) = {}
           /\ \A t \in held :
                 ~(t.intent \in {"access", "refresh"} /\ TokenUser(t) = u)

C6_VerifyMfaAuthenticates ==
    (last.op = "verify_mfa" /\ last.outcome = "ok") =>
       /\ last.access_token.intent = "access"
       /\ last.refresh_token.intent = "refresh"
       /\ user_sessions(sessions, last.user_id) # {}
       /\ users[last.user_id].mfa_last_used # NoTime

(* C6, the part that holds: verify_mfa returns an access and a refresh     *)
(* token and sets the user's MFA last_used.                                *)
C6_TokensAndLastUsed ==
    (last.op = "verify_mfa" /\ last.outcome = "ok") =>
       /\ last.access_token.intent = "access"
       /\ last.refresh_token.intent = "refresh"
       /\ users[last.user_id].mfa_last_used # NoTime

(* The user store without the accounts of an email. *)
Without(us, email) == [u \in {x \in DOMAIN us : us[x].email # email} |-> us[u]]

LoginAnswer(us, email, password) ==
    LET outcome == login_outcome(us, email, password)
    IN <<login_status(outcome), login_detail(outcome)>>

EndpointsLoginAnswer(us, email, password) ==
    LET uid == authenticate_user(us, email, password)
    IN <<endpoints_login_status(uid), endpoints_login_detail(uid)>>

WrongPassword(us, email, password) ==
    \E u \in find_by_email(us, email) : ~verify_password(password, us[u].password_hash)

EndpointStores ==
    {<< >>} \cup {[u \in {"u1"} |-> NewUserB(e, hash_password(p))] :
                    e \in Emails, p \in Passwords}

(* C7: for every email and every wrong password, login answers with the    *)
(* same status code and detail as it would if no account had that email,   *)
(* in both login handlers; the answer is HTTP 401 with one fixed detail.   *)
C7_LoginDoesNotRevealEmail ==
    /\ \A e \in Emails, p \in Passwords :
          WrongPassword(users, e, p) =>
             LoginAnswer(users, e, p) = LoginAnswer(Without(users, e), e, p)
    /\ (last.op = "login" /\ last.outcome \in {"no_user", "bad_password"}) =>
          (last.code = 401 /\ last.detail = "Invalid email or password" /\ NoTokens(last))
    /\ \A us \in EndpointStores, e \in Emails, p \in Passwords :
          WrongPassword(us, e, p) =>
             EndpointsLoginAnswer(us, e, p) = EndpointsLoginAnswer(Without(us, e), e, p)

(* login has just turned down a wrong password for a registered email,     *)
(* while another email is not registered                                   *)
C7_Witness ==
    /\ last.op = "login"
    /\ last.outcome = "bad_password"
    /\ \E e \in Emails : find_by_email(users, e) = {}

(* C8: for one identity and the strict limiter (threshold 10, window 60   *)
(* seconds), a request is let through when fewer than 10 requests were let *)
(* through in the 60 seconds before it, and is answered 429 "Rate limit    *)
(* exceeded" when 10 were: the first 10 requests of a window pass, the     *)
(* 11th is denied, and a request made once the earlier ones are 60 seconds *)
(* old passes again.                                                       *)
C8_RateLimitWindow ==
    (last.op = "rate_limited_request" /\ last.user_id # None) =>
       /\ last.in_window < strict_requests_per_minute =>
             (last.code = 200 /\ last.outcome = "ok")
       /\ last.in_window >= strict_requests_per_minute =>
             (last.code = 429 /\ last.detail = "Rate limit exceeded")
       /\ last.in_window <= strict_requests_per_minute

(* the 11th request of a window has just been denied *)
C8_Witness ==
    /\ last.op = "rate_limited_request"
    /\ last.code = 429
    /\ last.in_window = strict_requests_per_minute
    /\ Len(allowed_log) = strict_requests_per_minute

(* a request made when the 10 requests of the window before are 60 seconds *)
(* old has just been let through                                           *)
C8_WitnessAfterExpiry ==
    /\ last.op = "rate_limited_request"
    /\ last.code = 200
    /\ last.in_window = 0
    /\ now = 60
    /\ Len(request_times[last.user_id]) = 1

(* C9: a login request that is over the limit of 10 logins in 60 seconds   *)
(* is answered 429 and verify_password is not invoked for it.              *)
C9_RateLimitBeforePassword ==
    (last.op = "login" /\ last.in_window > strict_requests_per_minute) =>
       (last.code = 429 /\ ~last.pw_checked)

(* C10: right after logout answered success for a user, get_session finds  *)
(* no session of that user.                                                *)
C10_LogoutDeletesSessions ==
    (last.op = "logout" /\ last.outcome = "ok") =>
       \A sid \in SessionIds :
           get_session(sessions, sid).user_id # last.user_id

(* C11: right after confirm_password_reset succeeded for a user, the        *)
(* session store holds no record of that user, however many it held.       *)
C11_ResetDeletesSessions ==
    (last.op = "confirm_password_reset" /\ last.outcome = "ok") =>
       user_sessions(sessions, last.user_id) = {}

(* C12: a confirm_password_reset that presents anything but an unexpired,  *)
(* well-signed password reset token is answered 400, and every             *)
(* confirm_password_reset that is rejected answers an error code and       *)
(* leaves the user documents (password hash, reset token, reset expiry)    *)
(* and the session store as they were.                                     *)
C12_RejectedResetChangesNothing ==
    [][(/\ now' = now
        /\ last'.op = "confirm_password_reset")
       =>
       (/\ last'.presented \in {"invalid", "email_verification"} =>
               (last'.outcome = "bad_token" /\ last'.code = 400)
        /\ last'.outcome # "ok" =>
               /\ last'.code \in {400, 404, 422, 429}
               /\ users' = users
               /\ sessions' = sessions)
      ]_vars

(* confirm_password_reset has just turned down a reset token issued more   *)
(* than an hour ago, for an account that has a stored reset token and a    *)
(* session                                                                 *)
C12_Witness ==
    /\ last.op = "confirm_password_reset"
    /\ last.outcome = "bad_token"
    /\ \E t \in held :
          /\ t.intent = "password_reset"
          /\ t.key = SECRET_KEY
          /\ t.exp < now
          /\ \E u \in find_by_email(users, t.email) :
                /\ users[u].password_reset_token = t
                /\ user_sessions(sessions, u) # {}

(* C13: request_password_reset answers 200 with one fixed message whether  *)
(* or not an account has the email; when none has, no document changes and *)
(* no mail is scheduled; when one has, a password reset token for that     *)
(* email is stored in its document and handed to the mail sender.          *)
C13_ResetRequestDoesNotRevealEmail ==
    [][(/\ now' = now
        /\ last'.op = "request_password_reset"
        /\ last'.outcome # "rate_limited")
       =>
       LET found == find_by_email(users, last'.email) IN
       /\ last'.code = 200
       /\ last'.detail = request_password_reset_detail({})
       /\ NoTokens(last')
       /\ found = {} =>
              /\ users' = users
              /\ last'.mailed = NoToken
              /\ held' \subseteq held
       /\ found # {} =>
              /\ last'.mailed.intent = "password_reset"
              /\ last'.mailed.email = last'.email
              /\ \A u \in found : users'[u].password_reset_token = last'.mailed
              /\ \A u \in DOMAIN users \ found : users'[u] = users[u]
      ]_vars

(* request_password_reset has just answered for an email no account has,   *)
(* while an account with another email exists                              *)
C13_Witness ==
    /\ last.op = "request_password_reset"
    /\ last.code = 200
    /\ find_by_email(users, last.email) = {}
    /\ users # << >>
    /\ last.mailed = NoToken

(* C14: a register request with a well-formed body whose email already     *)
(* belongs to a user document is answered 400 and leaves the user store as *)
(* it was.                                                                 *)
C14_DuplicateEmailRejected ==
    [][(/\ now' = now
        /\ last'.op = "register"
        /\ last'.outcome \notin {"rate_limited", "invalid_body"}
        /\ find_by_email(users, last'.email) # {})
       =>
       (/\ last'.code = 400
        /\ users' = users)
      ]_vars

(* C14, the part that holds in both routers: a register request whose      *)
(* email already belongs to a user document is answered with an error and  *)
(* leaves the user store as it was.                                        *)
C14_DuplicateEmailChangesNothing ==
    [][(/\ now' = now
        /\ last'.op = "register"
        /\ last'.outcome \notin {"rate_limited", "invalid_body"}
        /\ find_by_email(users, last'.email) # {})
       =>
       (/\ last'.code \in {400, 500}
        /\ NoTokens(last')
        /\ users' = users)
      ]_vars

(* str.lower of an email *)
lower(e) == IF e = "A@x.com" THEN "a@x.com" ELSE e

(* C15: no two user documents have emails that are equal when compared     *)
(* without regard to case.                                                 *)
C15_EmailsUnique ==
    \A u, v \in DOMAIN users :
        u # v => lower(users[u].email) # lower(users[v].email)

(* The account may be given full tokens: its status is active; a document  *)
(* of the mounted router has no status, and is active once it is verified  *)
(* and not disabled.                                                       *)
AccountActive(doc) ==
    IF "status" \in DOMAIN doc
    THEN doc.status = "active"
    ELSE doc.is_active /\ doc.is_verified

(* C16: a refresh that succeeds returns an access token and no refresh     *)
(* token, and does so only for an existing account that is active at the   *)
(* time of the call; a refresh that fails returns no token.                *)
C16_RefreshOnlyForActive ==
    last.op = "refresh" =>
       /\ last.outcome = "ok" =>
             /\ last.access_token.intent = "access"
             /\ last.refresh_token = NoToken
             /\ last.user_id \in DOMAIN users
             /\ AccountActive(users[last.user_id])
       /\ last.outcome # "ok" => NoTokens(last)

(* C17: every password hash in the user store, whether written by         *)
(* register or by confirm_password_reset, is the hash of a password for    *)
(* which validate_password_strength reports valid.                         *)
C17_StoredPasswordsAreStrong ==
    \A u \in DOMAIN users :
        validate_password_strength(users[u].password_hash.of).valid

(* C18: verify_mfa accepts a submitted code that is one of the user's       *)
(* unused backup codes, and removes it from the user's backup codes.       *)
C18_BackupCodeAccepted ==
    (last.op = "verify_mfa" /\ last.backup_code) =>
       /\ last.outcome = "ok"
       /\ BackupCode(last.user_id) \notin users[last.user_id].mfa_backup_codes

(* C19: the access token a successful login of the mounted router returns *)
(* for an account authenticates as that account: the response's user_id is *)
(* the id of the document with the login email, and, until the token       *)
(* expires, the bearer dependency resolves the token to that same document *)
(* (same id, same email).  The same holds for every unexpired access token *)
(* a client holds.                                                         *)
C19_LoginTokenAuthenticates ==
    /\ (last.op = "login" /\ last.outcome = "ok") =>
          /\ last.user_id \in find_by_email(users, last.email)
          /\ last.access_token.intent = "access"
          /\ ~(last.access_token.exp < now) =>
                /\ get_current_user(users, last.access_token, now) = last.user_id
                /\ users[get_current_user(users, last.access_token, now)].email = last.email
    /\ \A t \in held :
          (t.intent = "access" /\ ~(t.exp < now)) =>
             /\ get_current_user(users, t, now) \in DOMAIN users
             /\ users[get_current_user(users, t, now)].email = t.email

(* login has just succeeded and the client holds the returned token, which *)
(* the bearer dependency resolves to the account that logged in            *)
C19_Witness ==
    /\ last.op = "login"
    /\ last.outcome = "ok"
    /\ last.access_token \in held
    /\ get_current_user(users, last.access_token, now) = last.user_id
    /\ users[last.user_id].email = last.email

(* The elements of a list. *)
Range(seq) == {seq[i] : i \in 1..Len(seq)}

(* C20: the permission list of an access token that login, verify_mfa or   *)
(* refresh has just issued equals, as a set, the permissions of the user's *)
(* role united with the user's custom grants.                              *)
C20_TokenPermissionsFollowRole ==
    (last.op \in {"login", "verify_mfa", "refresh"} /\ last.access_token # NoToken) =>
       Range(last.access_token.permissions) =
          Range(get_permissions_for_role(users[last.user_id].role))
             \cup Range(users[last.user_id].custom_permissions)

(* C20, the part that holds: the token carries the user's role, and its    *)
(* permission list is the document's stored permission list united with    *)
(* the custom grants.                                                      *)
C20_TokenCarriesStoredPermissions ==
    (last.op \in {"login", "verify_mfa", "refresh"} /\ last.access_token # NoToken) =>
       /\ last.access_token.role = users[last.user_id].role
       /\ Range(last.access_token.permissions) =
             Range(users[last.user_id].permissions)
                \cup Range(users[last.user_id].custom_permissions)

(* A step in which login has rejected a password, or verify_mfa a code. *)
RejectedProof ==
    /\ now' = now
    /\ last' # last \/ users' # users
    /\ \/ last'.op = "login" /\ last'.outcome = "bad_password"
       \/ last'.op = "verify_mfa" /\ last'.outcome = "bad_code"

(* C21: every rejected credential proof for an existing user, a wrong      *)
(* password at login or a wrong code at verify_mfa, adds exactly one to    *)
(* the failed-attempt counter of a user, and is answered with an error     *)
(* that carries no token.                                                  *)
C21_RejectedProofCountsOnce ==
    [][RejectedProof =>
          /\ \E u \in DOMAIN users :
                users'[u].failed_login_attempts = users[u].failed_login_attempts + 1
          /\ last'.code = 401
          /\ NoTokens(last')]_vars

(* C21, the part that holds: a wrong password at login adds exactly one to *)
(* the counter of the account with that email and is answered 401 without  *)
(* a token; a wrong code at verify_mfa is answered 401 without a token.    *)
C21_WrongPasswordCountsOnce ==
    [][RejectedProof =>
          /\ last'.op = "login" =>
                users'[last'.user_id].failed_login_attempts =
                   users[last'.user_id].failed_login_attempts + 1
          /\ last'.code = 401
          /\ NoTokens(last')]_vars

(* A step in which login has found the account, accepted the password and  *)
(* passed the status checks of an account without MFA.                     *)
LoginPassed ==
    /\ now' = now
    /\ last' # last \/ users' # users
    /\ last'.op = "login"
    /\ last'.outcome \in {"ok", "session_error"}

(* C22: a successful login of an account without MFA returns one access    *)
(* and one refresh token, adds exactly one session of the user to the      *)
(* store and keeps the sessions that were there, sets the failed-attempt   *)
(* counter to 0, adds one to login_count and records the time of the login.*)
C22_LoginIssuesTokensAndSession ==
    [][LoginPassed =>
          /\ last'.code = 200
          /\ last'.access_token.intent = "access"
          /\ last'.refresh_token.intent = "refresh"
          /\ \A s \in DOMAIN sessions : s \in DOMAIN sessions' /\ sessions'[s] = sessions[s]
          /\ Cardinality(DOMAIN sessions' \ DOMAIN sessions) = 1
          /\ \A s \in DOMAIN sessions' \ DOMAIN sessions :
                sessions'[s].user_id = last'.user_id
          /\ users'[last'.user_id].failed_login_attempts = 0
          /\ users'[last'.user_id].login_count = users[last'.user_id].login_count + 1
          /\ users'[last'.user_id].last_login = now]_vars

(* C22, the part that holds: the user document is saved with the counters  *)
(* of a successful login, and the sessions the user had are left in place. *)
C22_LoginSavesActivity ==
    [][LoginPassed =>
          /\ sessions' = sessions
          /\ users'[last'.user_id].failed_login_attempts = 0
          /\ users'[last'.user_id].login_count = users[last'.user_id].login_count + 1
          /\ users'[last'.user_id].last_login = now]_vars

(* C23: the failed-attempt counter is incremented atomically: every login  *)
(* that ends with a wrong password, whatever other logins of the same user *)
(* run between its read and its write, leaves the stored counter exactly   *)
(* one above what it was before the write, so that k failed attempts raise *)
(* it by k.                                                                *)
C23_FailedAttemptsAllCounted ==
    [][\A w \in DOMAIN inflight :
          (w \notin DOMAIN inflight' /\ inflight[w].outcome = "bad_password") =>
             users'[inflight[w].uid].failed_login_attempts =
                users[inflight[w].uid].failed_login_attempts + 1]_vars

(* What a login or verify_mfa step must leave alone when it is answered    *)
(* with an error.                                                          *)
ErrorFrame ==
    /\ sessions' = sessions
    /\ last'.access_token = NoToken
    /\ last'.refresh_token = NoToken
    /\ \A u \in DOMAIN users :
          /\ users'[u].login_count = users[u].login_count
          /\ users'[u].last_login = users[u].last_login
          /\ users'[u].password_hash = users[u].password_hash

(* A step of login or verify_mfa. *)
LoginOrVerifyMfa ==
    /\ now' = now
    /\ last' # last \/ users' # users
    /\ last'.op \in {"login", "verify_mfa"}

C24_RejectionChangesNothing ==
    [][(LoginOrVerifyMfa /\ last'.code \in {400, 401, 403, 404}) => ErrorFrame]_vars

(* C25: the increment of a counter and the setting of its time-to-live are *)
(* one unit: in every state reached by CacheManager.increment calls, store *)
(* failures and key expirations, every counter key that exists has a       *)
(* time-to-live, and one that has not run out.                             *)
C25_EveryCounterExpires ==
    \A k \in DOMAIN counters :
        /\ counters[k].expires # NoTime
        /\ counters[k].expires > now

(* a call has just failed at the store, after earlier calls have counted   *)
(* a key up to 2 or more and time has passed                               *)
C25_Witness ==
    /\ last.op = "increment"
    /\ last.outcome = "error"
    /\ now > 0
    /\ \E k \in DOMAIN counters : counters[k].value >= 2

(* C26: however the requests of one identity at the strict limiter         *)
(* interleave, at most 10 of them are let through within 60 seconds: two   *)
(* requests that began at the same count below the threshold do not both   *)
(* pass on it.                                                             *)
C26_AtMostThresholdAllowed ==
    /\ Len(allowed_log) <= strict_requests_per_minute
    /\ \A u \in DOMAIN request_times :
          Len(InWindow(request_times[u], now)) <= strict_requests_per_minute

(* a request has just been denied at 10 requests in the window while       *)
(* another request of the same identity, begun when the count was below    *)
(* the threshold, has not yet reached the check                            *)
C26_Witness ==
    /\ last.op = "rate_limited_request"
    /\ last.code = 429
    /\ Len(allowed_log) = strict_requests_per_minute
    /\ \E w \in DOMAIN inflight :
          /\ inflight[w].uid = last.user_id
          /\ Len(Cleaned(inflight[w].seen, inflight[w].uid, now)) < strict_requests_per_minute

(* A step of verify_email for a valid email_verification token. *)
VerifyEmailValid ==
    /\ now' = now
    /\ last'.op = "verify_email"
    /\ last'.presented = "email_verification"
    /\ last'.user_id # None

(* C27: verify_email is idempotent.  The call with a valid token for a     *)
(* user whose email is not verified yet sets is_email_verified, makes the  *)
(* status active and clears the stored verification token; every call with *)
(* a valid token for a user whose email is verified is answered 200 and    *)
(* changes no field of any user record.                                    *)
C27_VerifyEmailIdempotent ==
    [][VerifyEmailValid =>
          /\ last'.code = 200
          /\ ~users[last'.user_id].is_email_verified =>
                /\ users'[last'.user_id].is_email_verified
                /\ users'[last'.user_id].status = "active"
                /\ users'[last'.user_id].email_verification_token = NoToken
          /\ users[last'.user_id].is_email_verified =>
                /\ last'.detail = "Email already verified"
                /\ users' = users]_vars

(* a valid token has just been presented again, at a later time than the   *)
(* call that verified the email                                            *)
C27_Witness ==
    /\ last.op = "verify_email"
    /\ last.presented = "email_verification"
    /\ last.detail = "Email already verified"
    /\ users[last.user_id].is_email_verified
    /\ users[last.user_id].updated_at < now

(* The operations of the auth core, as `last` names them. *)
AuthCoreOps ==
    {"register", "verify_email", "login", "verify_mfa", "refresh", "logout",
     "request_password_reset", "confirm_password_reset"}

(* C28: no operation of the auth core moves a suspended account back to    *)
(* active: the only status change register, verify_email, login,           *)
(* verify_mfa, refresh, logout and the password reset make is              *)
(* pending_verification to active, and an account that is suspended or     *)
(* inactive before the call has the same status after it.                  *)
C28_SuspendedStaysSuspended ==
    [][(now' = now /\ last'.op \in AuthCoreOps) =>
          \A u \in DOMAIN users :
             /\ users'[u].status # users[u].status =>
                   (users[u].status = "pending_verification" /\ users'[u].status = "active")
             /\ users[u].status \in {"suspended", "inactive"} =>
                   users'[u].status = users[u].status]_vars

(* C28, the part that holds: the only operation of the auth core that      *)
(* changes a status is verify_email, the status it writes is active, and   *)
(* it writes it only to an account whose email was not verified.           *)
C28_OnlyVerifyEmailActivates ==
    [][(now' = now /\ last'.op \in AuthCoreOps) =>
          \A u \in DOMAIN users :
             users'[u].status # users[u].status =>
                /\ last'.op = "verify_email"
                /\ users'[u].status = "active"
                /\ ~users[u].is_email_verified]_vars

(* The five requirements, read off the characters of a password. *)
MeetsRequirement(cs, req) ==
    CASE req = "min_length" -> Len(cs) >= PASSWORD_MIN_LENGTH
      [] req = "has_upper" -> \E i \in 1..Len(cs) : isupper(cs[i])
      [] req = "has_lower" -> \E i \in 1..Len(cs) : islower(cs[i])
      [] req = "has_digit" -> \E i \in 1..Len(cs) : isdigit(cs[i])
      [] req = "has_special" -> \E i \in 1..Len(cs) : cs[i] \in special_chars

Requirements == {"min_length", "has_upper", "has_lower", "has_digit", "has_special"}

(* The message validate_password_strength has for a requirement. *)
FeedbackFor(req) ==
    CASE req = "min_length" -> "Password must be at least 8 characters long"
      [] req = "has_upper" -> "Password must contain at least one uppercase letter"
      [] req = "has_lower" -> "Password must contain at least one lowercase letter"
      [] req = "has_digit" -> "Password must contain at least one digit"
      [] req = "has_special" -> "Password must contain at least one special character"

(* C29: validate_password_strength returns valid = true exactly when the   *)
(* password meets all five requirements (length at least the configured    *)
(* minimum, an uppercase letter, a lowercase letter, a digit, a special     *)
(* character), its requirement flags say which are met, and its feedback   *)
(* has exactly one message for each requirement that is not met.           *)
C29_ValidIffAllRequirements ==
    last.op = "validate_password_strength" =>
       LET unmet == {req \in Requirements : ~MeetsRequirement(last.password, req)} IN
       /\ last.result.valid = (unmet = {})
       /\ \A req \in Requirements :
             last.result.requirements[req] = MeetsRequirement(last.password, req)
       /\ Range(last.result.feedback) = {FeedbackFor(req) : req \in unmet}
       /\ Len(last.result.feedback) = Cardinality(unmet)

(* a password of 8 or more characters that lacks a digit only has just     *)
(* been turned down with that one message                                  *)
C29_Witness ==
    /\ last.op = "validate_password_strength"
    /\ ~last.result.valid
    /\ Len(last.password) >= PASSWORD_MIN_LENGTH
    /\ last.result.feedback = <<"Password must contain at least one digit">>

(* a password that meets all five requirements has just been accepted      *)
C29_WitnessValid ==
    /\ last.op = "validate_password_strength"
    /\ last.result.valid
    /\ last.result.feedback = << >>

(* The number of the five requirements a password meets. *)
Satisfied(cs) == Cardinality({req \in Requirements : MeetsRequirement(cs, req)})

(* What the two additional checks add to the score: 10 for 12 characters   *)
(* or more, 10 when no three characters occur again later in the password. *)
Bonus(cs) ==
    (IF Len(cs) >= 12 THEN 10 ELSE 0) + (IF ~RepeatsTriple(cs) THEN 10 ELSE 0)

(* C30: the score validate_password_strength returns lies within 0..100,   *)
(* and each of the five requirements that is met adds the same amount, 20, *)
(* to it, for every password.                                              *)
C30_ScoreWithinHundred ==
    last.op = "validate_password_strength" =>
       /\ last.result.score \in 0..100
       /\ last.result.score - Bonus(last.password) = 20 * Satisfied(last.password)

(* C30, the part that holds: each requirement that is met adds 20, the two *)
(* additional checks add 10 each, and the score lies within 0..120.        *)
C30_EqualShares ==
    last.op = "validate_password_strength" =>
       /\ last.result.score \in 0..120
       /\ last.result.score = 20 * Satisfied(last.password) + Bonus(last.password)

(* C31: a create_session(u, ctx) call ends in one of two ways.  Either it  *)
(* returns a session id, and then get_session of that id finds a record of *)
(* user u with its time-to-live ahead; or the store write failed, and then *)
(* no id is handed to the caller.                                          *)
C31_CreateSessionWritesRecord ==
    last.op = "create_session" =>
       \/ /\ last.outcome = None
          /\ last.session_id # None
          /\ get_session(sessions, last.session_id).user_id = last.user_id
          /\ get_session(sessions, last.session_id).expires > now
       \/ /\ last.outcome = "store_failed"
          /\ last.session_id = None

(* C31, the part that holds: no id of an unwritten session reaches the     *)
(* caller, because no id reaches the caller at all, and the call leaves    *)
(* the store as it was.                                                    *)
C31_NoIdWithoutRecord ==
    /\ last.op = "create_session" => last.session_id = None
    /\ [][last'.op = "create_session" /\ now' = now => sessions' = sessions]_vars

(* A step in which delete_user_sessions has returned. *)
DeleteUserSessionsReturned ==
    /\ now' = now
    /\ last' # last \/ sessions' # sessions
    /\ last'.op = "delete_user_sessions"

(* C32: delete_user_sessions(u) removes all and only the sessions of u:    *)
(* when it has returned no record of the store has user_id u, every record *)
(* of another user is as it was, and the count it returned is the number   *)
(* of records it removed.                                                  *)
C32_DeletesAllAndOnly ==
    [][DeleteUserSessionsReturned =>
          /\ user_sessions(sessions', last'.user_id) = {}
          /\ \A s \in DOMAIN sessions :
                sessions[s].user_id # last'.user_id =>
                   (s \in DOMAIN sessions' /\ sessions'[s] = sessions[s])
          /\ last'.deleted = Cardinality(DOMAIN sessions \ DOMAIN sessions')]_vars

(* C32, the part that holds: only records of u are removed, none is added  *)
(* or changed, and when the store does not fail all of them are removed    *)
(* and the count is their number.                                          *)
C32_DeletesOnly ==
    [][DeleteUserSessionsReturned =>
          /\ \A s \in DOMAIN sessions :
                sessions[s].user_id # last'.user_id =>
                   (s \in DOMAIN sessions' /\ sessions'[s] = sessions[s])
          /\ \A s \in DOMAIN sessions' : s \in DOMAIN sessions /\ sessions'[s] = sessions[s]
          /\ last'.outcome = "ok" =>
                /\ user_sessions(sessions', last'.user_id) = {}
                /\ last'.deleted = Cardinality(user_sessions(sessions, last'.user_id))]_vars

(* C33: a store failure during session deletion is never swallowed: when   *)
(* logout or confirm_password_reset has run for a user and records of that *)
(* user are still in the session store afterwards, the answer is a service *)
(* error, not a success.                                                   *)
C33_DeletionFailureReported ==
    [][(/\ now' = now
        /\ last'.op \in {"logout", "confirm_password_reset"}
        /\ last'.user_id # None
        /\ user_sessions(sessions', last'.user_id) # {})
       => last'.code >= 500]_vars

(* C33, the part that holds: when the store does not fail, which shows in  *)
(* the count of deleted records being that of the user's records, no       *)
(* record of the user is left after the success answer.                    *)
C33_DeletionWithoutFailure ==
    [][(/\ now' = now
        /\ last'.op \in {"logout", "confirm_password_reset"}
        /\ last'.user_id # None
        /\ last' # last \/ sessions' # sessions
        /\ last'.deleted = Cardinality(user_sessions(sessions, last'.user_id)))
       => user_sessions(sessions', last'.user_id) = {}]_vars

(* C34: get_current_user accepts a bearer token only while its subject     *)
(* exists and is active.  Every request behind it that is answered 200 is  *)
(* answered for a user that is in the collection and active at that        *)
(* moment, and a correctly signed, unexpired token a client holds whose    *)
(* user has been removed or deactivated resolves to no user (401), from    *)
(* the first request after the change on.                                  *)
C34_OnlyActiveSubjects ==
    /\ (last.op \in {"me", "refresh"} /\ last.code = 200) =>
          /\ last.user_id \in DOMAIN users
          /\ IsActive(users[last.user_id])
    /\ \A t \in held :
          (t.form = "jwt" /\ (t.sub \notin DOMAIN users \/ ~IsActive(users[t.sub]))) =>
             get_current_user(users, t, now) = None

(* a client has just presented a correctly signed, unexpired access token  *)
(* of a deactivated account and has been answered 401                      *)
C34_Witness ==
    /\ last.op = "me"
    /\ last.code = 401
    /\ last.presented = "access"
    /\ \E t \in held :
          /\ jwt_decodes(t, JWT_SECRET, now)
          /\ t.sub \in DOMAIN users
          /\ ~users[t.sub].is_active

(* the same for the token of an account whose document has been removed    *)
C34_WitnessRemoved ==
    /\ last.op = "me"
    /\ last.code = 401
    /\ last.presented = "access"
    /\ \E t \in held : jwt_decodes(t, JWT_SECRET, now) /\ t.sub \notin DOMAIN users

(* C35: login and verify_mfa issue an access and refresh token, or create  *)
(* a session, only for a user whose status is active at that moment; this  *)
(* includes an account suspended between the password step and the MFA     *)
(* step.                                                                   *)
C35_TokensOnlyForActive ==
    [][(/\ now' = now
        /\ last'.op \in {"login", "verify_mfa"}
        /\ last' # last \/ users' # users
        /\ \/ last'.access_token # NoToken
           \/ last'.refresh_token # NoToken
           \/ DOMAIN sessions' # DOMAIN sessions)
       => /\ last'.user_id \in DOMAIN users
          /\ users[last'.user_id].status = "active"]_vars

(* C35, the part that holds: login turns down a suspended and an           *)
(* unverified account before it issues anything, the 5-minute MFA token    *)
(* included.                                                               *)
C35_LoginChecksStatus ==
    [][(/\ now' = now
        /\ last'.op = "login"
        /\ last' # last \/ users' # users
        /\ last'.user_id # None
        /\ users[last'.user_id].status \in {"suspended", "pending_verification"}
        /\ last'.outcome # "bad_password")
       => /\ last'.code = 403
          /\ NoTokens(last')
          /\ sessions' = sessions]_vars

(* A step in which confirm_password_reset has answered success. *)
ResetConfirmed ==
    /\ now' = now
    /\ last' # last \/ users' # users
    /\ last'.op = "confirm_password_reset"
    /\ last'.code = 200

(* C36: a password-reset token is single-use: confirm_password_reset       *)
(* succeeds only for a user who has a reset pending, that is, whose stored *)
(* reset token has not been cleared by an earlier successful               *)
(* confirmation; a token that was used once is turned down afterwards.     *)
C36_ResetTokenSingleUse ==
    [][ResetConfirmed => users[last'.user_id].password_reset_token # NoToken]_vars

(* C36, the part that holds: a successful confirmation clears the stored   *)
(* reset token and its expiry.                                             *)
C36_ConfirmClearsStoredToken ==
    [][ResetConfirmed =>
          /\ users'[last'.user_id].password_reset_token = NoToken
          /\ users'[last'.user_id].password_reset_expires = NoTime]_vars


(* C37: a login that verified the old password and returns after the       *)
(* password was reset leaves no session behind: whenever a login in flight *)
(* returns and the password hash it verified against is no longer the      *)
(* stored one, the user has no session once it has returned.               *)
LoginReturnsAfterReset(w) ==
    /\ w \in DOMAIN inflight
    /\ w \notin DOMAIN inflight'
    /\ inflight[w].op = "login"
    /\ inflight[w].outcome = "ok"
    /\ inflight[w].uid \in DOMAIN users
    /\ users[inflight[w].uid].password_hash # inflight[w].doc.password_hash

C37_ResetHashSurvivesLogin ==
    [][\A w \in Workers :
         LoginReturnsAfterReset(w) =>
             users'[inflight[w].uid].password_hash = users[inflight[w].uid].password_hash]_vars


(* C38: an mfa_pending token completes at most one authentication: when    *)
(* verify_mfa has just answered 200 for the MFA token M, a verify_mfa that *)
(* presented the same M and returns next is not answered with a token      *)
(* pair.                                                                   *)
MfaCompleted(resp) ==
    /\ resp.op = "verify_mfa"
    /\ resp.code = 200
    /\ resp.access_token # NoToken

C38_MfaTokenSingleUse ==
    [][\A w \in Workers :
         (/\ w \in DOMAIN inflight
          /\ w \notin DOMAIN inflight'
          /\ inflight[w].op = "verify_mfa"
          /\ MfaCompleted(last)
          /\ last.request_mfa_token = inflight[w].mfa_token)
         => ~MfaCompleted(last')]_vars

(* What holds of verify_mfa: a token pair is answered only to a request    *)
(* that presented an unexpired token issued as mfa_pending for that user   *)
(* together with a code the user's secret accepts.                         *)
C38_MfaNeedsPendingToken ==
    [][\A w \in Workers :
         (w \in DOMAIN inflight /\ w \notin DOMAIN inflight' /\ MfaCompleted(last'))
         => /\ inflight[w].mfa_token.intent = "mfa_pending"
            /\ inflight[w].mfa_token.user_id = last'.user_id
            /\ last'.presented = "mfa_pending"]_vars


(* A request of user last'.user_id has passed through RateLimitDependency. *)
LimiterStep ==
    /\ now' = now
    /\ users' = users
    /\ inflight' = inflight
    /\ last'.op = "rate_limited_request"
    /\ last'.user_id # None

StoredTimes(times, u) == IF u \in DOMAIN times THEN times[u] ELSE << >>

Entries(seq) == {seq[i] : i \in 1..Len(seq)}

(* The list of a user never holds more than requests_per_minute entries.  *)
C39_ListWithinLimit ==
    \A u \in DOMAIN request_times : Len(request_times[u]) <= strict_requests_per_minute

(* C39: after a request the user's list holds at most requests_per_minute *)
(* entries; a request is denied exactly when the user's own list holds     *)
(* requests_per_minute entries of the last 60 seconds; an allowed request  *)
(* adds its own time and nothing else; a denied request adds nothing, so   *)
(* what the list holds of the window at any later time is what it held     *)
(* before; the lists of the other users are left as they were.             *)
C39_OnlyAllowedRecorded ==
    [][LimiterStep =>
         LET uid == last'.user_id
             before == StoredTimes(request_times, uid)
             after == StoredTimes(request_times', uid)
         IN /\ last'.code \in {200, 429}
            /\ Len(after) <= strict_requests_per_minute
            /\ last'.code = 429 <=>
                  Len(InWindow(before, now)) >= strict_requests_per_minute
            /\ last'.code = 200 =>
                  /\ Len(after) = Len(InWindow(before, now)) + 1
                  /\ after[Len(after)] = now
                  /\ SubSeq(after, 1, Len(after) - 1) = InWindow(before, now)
            /\ last'.code = 429 =>
                  /\ Entries(after) \subseteq Entries(before)
                  /\ \A t \in InstantsRL :
                        t >= now => InWindow(after, t) = InWindow(before, t)
            /\ \A u \in DOMAIN request_times \ {uid} :
                  /\ u \in DOMAIN request_times'
                  /\ request_times'[u] = request_times[u]]_vars

(* a request of one user has just been let through while the list of       *)
(* another user holds requests_per_minute entries of the window            *)
C39_Witness ==
    /\ last.op = "rate_limited_request"
    /\ last.code = 200
    /\ \E u \in DOMAIN request_times \ {last.user_id} :
          Len(InWindow(request_times[u], now)) = strict_requests_per_minute

(* a request has just been denied and the list holds the 10 allowed ones   *)
C39_WitnessDenied ==
    /\ last.op = "rate_limited_request"
    /\ last.code = 429
    /\ Len(request_times[last.user_id]) = strict_requests_per_minute

=============================================================================
